---- MODULE Spec2Model ----
(***************************************************************************)
(* A model of the hashR harvesting engine: HashR.Run, HashR.newSources,    *)
(* HashR.processingWorker, HashR.process, HashR.handleError and            *)
(* cleanupLocalStorage of core/hashr.go, and Load, Save, readJSON and      *)
(* Check of the cache package.  Run goes through its importers one after   *)
(* the other; the repository of an importer is run by                      *)
(* ProcessingWorkerCount concurrent workers that share the sync.Map cache, *)
(* the mutex h.mu, the counter h.cacheSaveCounter and the job storage.     *)
(*                                                                         *)
(* The exporter and saveSamples either succeed or return an error, the     *)
(* job storage may fail its calls, QuickSHA256Hash may return an error or  *)
(* the value of another source, and the environment raises at most         *)
(* MaxFaults errors in a run.  The map h.processingSources is accessed by  *)
(* the workers without a lock: see ConcurrentMapAccess.  The cache file    *)
(* round trip (SpecCache) and the EC2 worker instances of the AWS importer *)
(* (SpecAws) have actions of their own.                                    *)
(***************************************************************************)
EXTENDS Integers, Sequences, FiniteSets, TLC

(***************************************************************************)
(* Bounds of the model.                                                    *)
(***************************************************************************)
\* number of sources the importers' DiscoverRepo return between them
NumSources == 2
\* largest value of the processing_worker_count flag
MaxWorkers == 2
\* number of importers HashR.Run is configured with
NumImporters == 2
\* number of errors (of a stage of a source, of a cache save) in one run
MaxFaults == 1
\* the periodic save threshold of processingWorker (20 in hashr.go:356),
\* scaled down so that a periodic save happens within NumSources sources
SaveEvery == 0
\* number of images of the AWS importer that are preprocessed in a run
NumImages == 2
\* number of running EC2 worker instances DescribeInstances returns
NumInstances == 2

\* the sources that exist: those the importers share, and one more that
\* only the large repository (LargeRepository) lists
Sources == 1..(NumSources + 1)
Workers == 1..MaxWorkers
AwsImages == 1..NumImages
Instances == 1..NumInstances

(***************************************************************************)
(* Status values of a processing job.                                      *)
(***************************************************************************)
discovered == "discovered"
preprocessed == "preprocessed"
processed == "processed"
cached == "cached"
exported == "exported"
failed == "failed"
reprocess == "reprocess"

(***************************************************************************)
(* Strings.  strings.EqualFold compares under Unicode case folding; on the *)
(* strings of the model that is equality of the lower-cased strings.       *)
(***************************************************************************)
ToLower(s) ==
  CASE s = "H1" -> "h1"
    [] s = "H2" -> "h2"
    [] s = "REPROCESS" -> "reprocess"
    [] OTHER -> s

EqualFold(s, t) == ToLower(s) = ToLower(t)

RECURSIVE contains(_, _)
contains(slice, s) ==
  IF slice = <<>> THEN FALSE
  ELSE IF EqualFold(s, Head(slice)) THEN TRUE
  ELSE contains(Tail(slice), s)

(***************************************************************************)
(* Sources.  The quick hash is a lower-case hex digest of the artifact or  *)
(* of its metadata; ID is the human-readable identifier.                   *)
(***************************************************************************)
\* the quick hash of the artifact an importer has for source s
Content(s) == "h" \o ToString(s)
ID(s) == "src" \o ToString(s)
QuickHashes == {Content(s) : s \in Sources}
\* the artifact cannot be read: os.Open or Images.Get returns an error
Unreadable == "<error>"

\* full digest of the preprocessed artifact (sha256sum of LocalPath)
SourceSHA256(s) == "sha" \o ToString(s)

(***************************************************************************)
(* Paths are sequences of tokens; the concatenation of the tokens is the   *)
(* path string, so a string prefix is a sequence prefix.                   *)
(***************************************************************************)
HasPrefix(p, prefix) ==
  /\ Len(p) >= Len(prefix)
  /\ SubSeq(p, 1, Len(prefix)) = prefix

\* the literal "/tmp/hashr" of cleanupLocalStorage
TmpPrefix == <<"/tmp/", "hashr">>
\* ioutil.TempDir("", "hashr-<id>-"): /tmp/hashr-<id>-NNN/
TempDir(s) == <<"/tmp/", "hashr", "-" \o ID(s) \o "-", "001", "/">>
\* default of the export_path flag: /tmp/hashr-uploads
ExportPath == <<"/tmp/", "hashr", "-uploads", "/">>
\* a directory that does not belong to the engine
DataDir == <<"/data/">>

\* the tokens that end with a path separator
EndsWithSlash(tok) == tok \in {"/tmp/", "/", "/data/"}

\* filepath.Split: the directory is everything up to the last separator
RECURSIVE SplitDir(_)
SplitDir(p) ==
  IF p = <<>> THEN <<>>
  ELSE IF EndsWithSlash(p[Len(p)]) THEN p
  ELSE SplitDir(SubSeq(p, 1, Len(p) - 1))

\* filepath.Join(dir, rel) for a dir that ends with a separator
Join(dir, rel) == dir \o rel

\* Source.RepoName() of the sources of an importer
RepoName(i) == "repo" \o ToString(i)

\* filepath.Join(h.ExportPath, fmt.Sprintf("%s___%s___%s", ...))
DestDir(sourceImporter, sourceID, sourceHash) ==
  Join(ExportPath, <<sourceImporter \o "___" \o sourceID \o "___" \o sourceHash, "/">>)

\* filepath.Join(destDir, sample.Sha256)
SampleDir(destDir, sha256) == Join(destDir, <<sha256, "/">>)

\* filepath.Base
Base(path) == path[Len(path)]

(***************************************************************************)
(* The cache: file digest -> entries, NoEntries when the key is absent.    *)
(***************************************************************************)
Digests == {"A", "B"}
\* timestamppb.Now() during the run, and the time of an earlier run; 0 is
\* the LastUpdated of a message that has none
Now == 2
Earlier == 1

\* cpb.Entries (LastUpdated, Entries); present is FALSE for a key the map
\* lacks
NoEntries == [present |-> FALSE, LastUpdated |-> 0, Entries |-> <<>>]
EntriesAt(time, list) == [present |-> TRUE, LastUpdated |-> time, Entries |-> list]
Entries(list) == EntriesAt(Now, list)
EmptyCache == [d \in Digests |-> NoEntries]
Keys(cache) == {d \in Digests : cache[d].present}

\* cpb.CacheEntry as Check fills it in
CacheEntry(sourceID, sourceHash) ==
  [SourceId |-> sourceID, SourceHash |-> sourceHash, Path |-> <<>>]
\* an entry written by an earlier run
OldEntry == CacheEntry("old", "shaold")

VARIABLES
  runPc,                  \* position of HashR.Run ("crashed": the process died)
  SourcesForReprocessing, \* HashR.SourcesForReprocessing
  Export,                 \* HashR.Export
  ProcessingWorkerCount,  \* HashR.ProcessingWorkerCount
  jobs,                   \* the job storage: quick hash -> record or NoJob
  processingSources,      \* HashR.processingSources
  cacheSaveCounter,       \* HashR.cacheSaveCounter
  mu,                     \* HashR.mu: 0 when free, else the holding worker
  processingJobs,         \* sources the feeder has not yet sent
  c,                      \* the repository cache (sync.Map)
  cacheFile,              \* the cache file on disk
  fs,                     \* directories that exist on the local disk
  LocalPath,              \* Source.LocalPath() of each source, once preprocessed
  Manifest,               \* the hashes.json the processor writes for each source
  faults,                 \* errors the environment may still raise in this run
  pc,                     \* position of each processingWorker
  w_source,               \* the source a worker is handling (0: none)
  extraction,             \* the worker's common.Extraction
  samples,                \* the worker's manifest, as read by readJSON
  exports,                \* the samples Check has appended so far
  loaded,                 \* result of the worker's last cache.Load
  counterRead,            \* the value a worker read for cacheSaveCounter++
  saving,                 \* the data a running Save has still to write
  Importers,              \* the sources each importer's DiscoverRepo lists, in the configured order
  importer,               \* index of the importer HashR.Run is at
  runResult,              \* what Run has returned ("" while it runs)
  ctx,                    \* the context passed to Run: "background" (never
                          \* ctx), "live", or "cancelled"
  storage,                \* the job storage: "sound" (it never fails in this
                          \* run), "up", or "down" (it fails the calls made)
  db,                     \* the exporter's database: source rows, sample rows, relationships
  exporter,               \* the exporter's backend: "sound" (no call fails in this run) or "faulty"
  missing,                \* the extracted files that hashes.json lists but the disk does not hold
  exportDisk,             \* the files saveSamples has written under ExportPath
  cacheDir,               \* the cache files of the other repositories in the cache directory
  quickSha256hash,        \* the quick hash each source keeps once it has calculated it
  remote,                 \* what the quick hash of the artifact of each source is now
  artifacts,              \* the sources whose artifact changes during the run
  instanceMap,            \* aws: the image each EC2 worker instance is processing (0: not in the map)
  inUse,                  \* aws: the InUse tag of each EC2 worker instance
  images,                 \* aws: each image in Preprocess: its position, its snapshot of the tags, its instance
  hist                    \* history of the run (observations only)

vars == <<runPc, SourcesForReprocessing, Export, ProcessingWorkerCount,
          jobs, processingSources, cacheSaveCounter, mu, processingJobs, c,
          cacheFile, fs, LocalPath, Manifest, faults, pc, w_source,
          extraction, samples, exports, loaded, counterRead, saving,
          Importers, importer, runResult, ctx, storage, db, exporter,
          missing, exportDisk, cacheDir, quickSha256hash, remote, artifacts,
          instanceMap, inUse, images, hist>>

(***************************************************************************)
(* Source.QuickSHA256Hash: the hash is calculated from the artifact at the *)
(* first call that succeeds and kept in the source; every importer either  *)
(* does this or returns a field that discovery has set.                    *)
(***************************************************************************)
\* the call returns an error
QuickHashError(s) == quickSha256hash[s] = "" /\ remote[s] = Unreadable

\* a variant that calculates the hash at every call
QuickSHA256Hash_Again(s) == remote[s]

\* the value the call returns when it returns no error
QuickSHA256Hash(s) ==
  IF quickSha256hash[s] # "" THEN quickSha256hash[s] ELSE remote[s]

\* the hashes the sources keep after the call was made for each source of S
Called(S) ==
  [s \in Sources |->
     IF s \in S /\ ~QuickHashError(s) THEN QuickSHA256Hash(s)
     ELSE quickSha256hash[s]]


(***************************************************************************)
(* Job records (ProcessingSource) and the job storage.                     *)
(***************************************************************************)
ProcessingSource(id, status) ==
  [ID |-> id, Sha256 |-> "", Status |-> status, Error |-> "",
   SampleCount |-> 0, ExportCount |-> 0]

\* marker of a quick hash that a job map does not hold
NoJob == ProcessingSource("", "<absent>")

\* Storage.UpdateJobs: upsert of the record under the quick hash
UpdateJobs(store, qHash, p) == [store EXCEPT ![qHash] = p]

\* the call of Storage.UpdateJobs by the engine: an error of the call is
\* logged ("could not update storage") and the storage is left as it was
TryUpdateJobs(store, qHash, p) ==
  IF storage = "down" THEN store ELSE UpdateJobs(store, qHash, p)

\* Storage.FetchJobs: quick hash -> status of every stored job
FetchJobs(store) ==
  [q \in {k \in DOMAIN store : store[k] # NoJob} |-> store[q].Status]

\* the statuses an earlier run, or the operator, left for the first source
StoredStatuses == {exported, failed, reprocess, "REPROCESS"}
\* the values of the reprocess flag: empty, or the first source's quick
\* hash as the operator typed it; strings.Split makes the list
ReprocessFlags == {<<"">>, <<"H1">>}

\* the job storage before the run: empty, or holding the first source
NoJobs == [q \in QuickHashes |-> NoJob]

StoredJobs(st) ==
  [q \in QuickHashes |->
     IF q = Content(1)
     THEN [ProcessingSource(ID(1), st) EXCEPT !.Sha256 = SourceSHA256(1)]
     ELSE NoJob]

InitialJobs == {NoJobs} \cup {StoredJobs(st) : st \in StoredStatuses}

(***************************************************************************)
(* HashR.newSources: the sources of the repository that are dispatched.    *)
(***************************************************************************)
\* a variant that forgets the stored status reprocess
isNew_NoStatus(processedSources, reprocessList, qHash) ==
  \/ qHash \notin DOMAIN processedSources
  \/ contains(reprocessList, qHash)

isNew(processedSources, reprocessList, qHash) ==
  \/ qHash \notin DOMAIN processedSources
  \/ contains(reprocessList, qHash)
  \/ EqualFold(processedSources[qHash], reprocess)

\* a variant that takes a source whose quick hash failed for a new one
RECURSIVE newSources_NoSkip(_, _, _)
newSources_NoSkip(sources, processedSources, reprocessList) ==
  IF sources = <<>> THEN <<>>
  ELSE LET rest == newSources_NoSkip(Tail(sources), processedSources, reprocessList)
       IN IF QuickHashError(Head(sources))
             \/ isNew(processedSources, reprocessList, QuickSHA256Hash(Head(sources)))
          THEN <<Head(sources)>> \o rest
          ELSE rest

RECURSIVE newSources(_, _, _)
newSources(sources, processedSources, reprocessList) ==
  IF sources = <<>> THEN <<>>
  ELSE LET rest == newSources(Tail(sources), processedSources, reprocessList)
       IN IF QuickHashError(Head(sources))
          THEN \* skipping source due to quick hashing error
               rest
          ELSE IF isNew(processedSources, reprocessList, QuickSHA256Hash(Head(sources)))
          THEN <<Head(sources)>> \o rest
          ELSE rest

\* the listing DiscoverRepo of the current importer returns
DiscoverRepo == Importers[importer]

\* the ways the importers may share the sources: importer i lists the
\* sources from cut[i-1]+1 to cut[i]
Cuts ==
  {cut \in [0..NumImporters -> 0..NumSources] :
     /\ cut[0] = 0
     /\ cut[NumImporters] = NumSources
     /\ \A i \in 1..NumImporters : cut[i - 1] <= cut[i]}

Listing(cut) ==
  [i \in 1..NumImporters |-> [k \in 1..(cut[i] - cut[i - 1]) |-> cut[i - 1] + k]]

ImporterLists == {Listing(cut) : cut \in Cuts}

\* the first importer lists every source, the others list nothing
OneRepository ==
  [i \in 1..NumImporters |->
     IF i = 1 THEN [k \in 1..NumSources |-> k] ELSE <<>>]

\* the first importer lists every source that exists
LargeRepository ==
  [i \in 1..NumImporters |->
     IF i = 1 THEN [k \in 1..(NumSources + 1) |-> k] ELSE <<>>]

\* the sources an importer lists
SourcesOf(i) == {Importers[i][k] : k \in 1..Len(Importers[i])}

(***************************************************************************)
(* The cache file.  proto.Marshal writes one length-prefixed record per    *)
(* map key, in an unspecified order; a file that ends inside a record      *)
(* (torn) does not unmarshal, a file that ends between records does.       *)
(***************************************************************************)
NoFile == [exists |-> FALSE, recs |-> <<>>, torn |-> FALSE]
File(recs, torn) == [exists |-> TRUE, recs |-> recs, torn |-> torn]

\* a variant that gives every repository the same file
cachePath_Shared(repoName) == "hashr-cache-"

\* the name of the cache file of a repository in the cache directory
cachePath(repoName) == "hashr-cache-" \o repoName

CachePaths == {cachePath(RepoName(i)) : i \in 1..NumImporters}

RECURSIVE Orders(_)
Orders(S) ==
  IF S = {} THEN {<<>>}
  ELSE UNION {{<<x>> \o o : o \in Orders(S \ {x})} : x \in S}

\* The fields proto.Marshal writes for a cpb.CacheEntry: a string that is
\* empty is not written, every element of a repeated field is.
EncodeEntry(e) ==
  (IF e.SourceId = "" THEN <<>> ELSE <<[tag |-> "source_id", val |-> e.SourceId]>>)
  \o (IF e.SourceHash = "" THEN <<>>
      ELSE <<[tag |-> "source_hash", val |-> e.SourceHash]>>)
  \o [i \in 1..Len(e.Path) |-> [tag |-> "path", val |-> e.Path[i]]]

\* proto.Unmarshal of a cpb.CacheEntry: the last value of a string field,
\* the elements of a repeated field in their order
RECURSIVE DecodeEntry(_)
DecodeEntry(fields) ==
  IF fields = <<>> THEN [SourceId |-> "", SourceHash |-> "", Path |-> <<>>]
  ELSE LET f == fields[Len(fields)]
           init == DecodeEntry(SubSeq(fields, 1, Len(fields) - 1))
       IN CASE f.tag = "source_id" -> [init EXCEPT !.SourceId = f.val]
            [] f.tag = "source_hash" -> [init EXCEPT !.SourceHash = f.val]
            [] f.tag = "path" -> [init EXCEPT !.Path = Append(@, f.val)]

\* the fields of a cpb.Entries: LastUpdated when it is set, every entry
EncodeEntries(v) ==
  (IF v.LastUpdated = 0 THEN <<>>
   ELSE <<[tag |-> "last_updated", val |-> v.LastUpdated]>>)
  \o [i \in 1..Len(v.Entries) |-> [tag |-> "entries", val |-> EncodeEntry(v.Entries[i])]]

RECURSIVE DecodeEntries(_)
DecodeEntries(fields) ==
  IF fields = <<>> THEN EntriesAt(0, <<>>)
  ELSE LET f == fields[Len(fields)]
           init == DecodeEntries(SubSeq(fields, 1, Len(fields) - 1))
       IN CASE f.tag = "last_updated" -> [init EXCEPT !.LastUpdated = f.val]
            [] f.tag = "entries" ->
                 [init EXCEPT !.Entries = Append(@, DecodeEntry(f.val))]

\* the serialisations proto.Marshal may produce for a cache
Marshal(cache) ==
  {[i \in 1..Len(o) |-> [key |-> o[i], entries |-> EncodeEntries(cache[o[i]])]] :
     o \in Orders(Keys(cache))}

\* a variant that drops the records of the file
Unmarshal_Empty(recs) == EmptyCache

RECURSIVE Unmarshal(_)
Unmarshal(recs) ==
  IF recs = <<>> THEN EmptyCache
  ELSE LET r == recs[Len(recs)]
           init == Unmarshal(SubSeq(recs, 1, Len(recs) - 1))
       IN [init EXCEPT ![r.key] = DecodeEntries(r.entries)]

\* what a failed cacheFile.Write may leave of data: some complete records,
\* possibly followed by a part of the next one
PartialWrites(data) ==
  {File(SubSeq(data, 1, k), t) : k \in 0..(Len(data) - 1), t \in BOOLEAN}

\* the cache files an earlier run may have left
InitialCacheFiles ==
  {NoFile,
   File(<<[key |-> "A",
           entries |-> EncodeEntries(EntriesAt(Earlier, <<OldEntry>>))]>>, FALSE),
   File(<<>>, TRUE)}

(***************************************************************************)
(* cleanupLocalStorage: sudo rm -rf path, only under the "/tmp/hashr"      *)
(* prefix.                                                                 *)
(***************************************************************************)
RmRf(dirs, path) == {d \in dirs : ~HasPrefix(d, path)}

cleanupLocalStorage(dirs, path) ==
  IF HasPrefix(path, TmpPrefix) THEN RmRf(dirs, path) ELSE dirs

(***************************************************************************)
(* Initial state: HashR as main constructs it, before Run.                 *)
(***************************************************************************)
\* the local paths an importer may report for a source: in its own
\* temporary directory, or (a faulty importer) anywhere else
LocalPaths(s) ==
  {TempDir(s) \o <<"img">>, ExportPath \o <<"img">>, DataDir \o <<"img">>}

\* one object of hashes.json: a digest and the relative paths of its files
ManifestEntry(d) ==
  [Sha256 |-> d,
   Paths |-> IF d = "A" THEN <<<<"f1">>, <<"sub/", "f2">>>> ELSE <<<<"f3">>>>]

\* the manifests the processor may write: two files, the same file twice,
\* one file, none
ManifestList ==
  <<<<ManifestEntry("A"), ManifestEntry("B")>>,
    <<ManifestEntry("B"), ManifestEntry("B")>>,
    <<ManifestEntry("A")>>,
    <<>>>>

\* the contents of the sources of the repository: neighbours share a file
Contents == [s \in Sources |-> ManifestList[((s - 1) % Len(ManifestList)) + 1]]

\* the export directory before the run: no file, no samples.json
EmptyDisk == [files |-> {}, json |-> {}]

\* the exporter's tables before the run
EmptyDB == [sources |-> {}, samples |-> {}, samples_sources |-> {}]

NoExtraction == [SourceID |-> "", BaseDir |-> <<>>, SourceSHA256 |-> "", Path |-> <<>>]
NoSave == [active |-> FALSE, data |-> <<>>]

\* an image of the AWS importer before Preprocess is called: seen is the
\* InUse tags in the result of DescribeInstances, index the place of the
\* loop over the instances, call the call Preprocess is at, instance the
\* i.instance field (0: types.Instance{})
NoInstances == [k \in Instances |-> FALSE]
NewImage == [pc |-> "new", seen |-> NoInstances, index |-> 1, call |-> 0, instance |-> 0]

\* The initial states for a choice of inputs: in gives, for each input of
\* the run, the set of the values it may have.
InitWith(in) ==
  /\ Manifest = Contents
  /\ Importers \in in.importerLists
  /\ importer = 1
  /\ runResult = ""
  /\ ctx \in in.contexts
  /\ storage \in in.storages
  /\ db = EmptyDB
  /\ missing \in in.missing
  /\ exportDisk = EmptyDisk
  /\ quickSha256hash = [s \in Sources |-> ""]
  /\ remote \in in.remotes
  /\ artifacts \in in.artifacts
  /\ instanceMap = [k \in Instances |-> 0]
  /\ inUse \in in.tags
  /\ images = [i \in AwsImages |-> NewImage]
  /\ exporter \in in.exporters
  /\ faults \in in.budgets
  /\ runPc = "discover"
  /\ SourcesForReprocessing \in in.reprocessFlags
  /\ Export \in in.exportModes
  /\ ProcessingWorkerCount \in in.workerCounts
  /\ jobs \in in.storedJobs
  /\ processingSources = [q \in QuickHashes |-> NoJob]
  /\ cacheSaveCounter = 0
  /\ mu = 0
  /\ processingJobs = <<>>
  /\ c \in in.caches
  /\ cacheFile \in in.files
  /\ cacheDir = [path \in CachePaths |-> NoFile]
  /\ fs \in in.disks
  /\ LocalPath \in in.localPaths
  /\ pc = [w \in Workers |-> "off"]
  /\ w_source = [w \in Workers |-> 0]
  /\ extraction = [w \in Workers |-> NoExtraction]
  /\ samples = [w \in Workers |-> <<>>]
  /\ exports = [w \in Workers |-> <<>>]
  /\ loaded = [w \in Workers |-> NoEntries]
  /\ counterRead = [w \in Workers |-> 0]
  /\ saving = NoSave
  /\ hist = [dispatched |-> {},
             listed |-> {},
             failedImporters |-> {},
             started |-> {},
             saved |-> {},
             stored |-> [q \in QuickHashes |-> NoJob],
             skipped |-> "",
             load |-> "",
             loadedFrom |-> NoFile,
             startKeys |-> {},
             observed |-> {},
             finalSave |-> "",
             uploads |-> [d \in Digests |-> 0],
             stages |-> [s \in Sources |-> <<>>],
             created |-> [s \in Sources |-> <<>>],
             failedAt |-> [s \in Sources |-> ""],
             checkStart |-> [w \in Workers |-> EmptyCache],
             fileBefore |-> NoFile,
             saveData |-> <<>>,
             saves |-> 0,
             finished |-> {},
             samplesOf |-> [s \in Sources |-> <<>>],
             content |-> [i \in 1..NumImporters |-> EmptyCache],
             firstHash |-> [s \in Sources |-> ""],
             op |-> "",
             disk0 |-> fs]

\* every importer puts each source into the temporary directory of the source
OwnPaths == [s \in Sources |-> TempDir(s) \o <<"img">>]

\* the local paths the importers may report for the sources they list: at
\* most one source of a run lies outside its own temporary directory
ImporterPaths ==
  {paths \in [Sources -> UNION {LocalPaths(s) : s \in 1..NumSources} \cup
                           {OwnPaths[s] : s \in Sources}] :
     /\ \A s \in Sources : s > NumSources => paths[s] = OwnPaths[s]
     /\ \A s, r \in Sources :
          paths[s] # OwnPaths[s] /\ paths[r] # OwnPaths[r] => s = r}

\* The plain run: one worker, one repository that no earlier run has seen
\* and that has no cache file, an exporter, every extracted file on the
\* disk, and an environment in which only the stages of a source and the
\* cache saves may fail.
Plain ==
  [reprocessFlags |-> {<<"">>},
   exportModes |-> {TRUE},
   workerCounts |-> {1},
   storedJobs |-> {NoJobs},
   files |-> {NoFile},
   localPaths |-> {OwnPaths},
   importerLists |-> {OneRepository},
   budgets |-> {MaxFaults},
   storages |-> {"sound"},
   contexts |-> {"background"},
   exporters |-> {"sound"},
   missing |-> {{}},
   disks |-> {{ExportPath, DataDir}},
   caches |-> {EmptyCache},
   remotes |-> {[s \in Sources |-> Content(s)]},
   artifacts |-> {{}},
   tags |-> {NoInstances}]

\* The plain run in an environment that acts on it: the calls the exporter
\* makes for a sample may fail, the job storage may fail, the caller of Run
\* may cancel the context.
\* Runs that save the samples to the disk: extracted files that the disk
\* does not hold, and an export directory that an earlier run has left
\* with the directory of a sample of the first source.
MissingFiles == {{}, {<<"f1">>}, {<<"f1">>, <<"sub/", "f2">>}}
LeftOver ==
  LET destDir == DestDir(RepoName(1), ID(1), SourceSHA256(1))
  IN {ExportPath, DataDir, destDir, SampleDir(destDir, "A")}
InitDisk ==
  InitWith([Plain EXCEPT !.exportModes = {FALSE},
                         !.missing = MissingFiles,
                         !.disks = {{ExportPath, DataDir}, LeftOver}])

\* Runs during which the artifact of the first source changes or goes away
\* after its quick hash was calculated.
InitVolatile == InitWith([Plain EXCEPT !.artifacts = {{1}}])

InitEnvironment ==
  \/ InitWith([Plain EXCEPT !.exporters = {"faulty"}])
  \/ InitWith([Plain EXCEPT !.storages = {"up"}])
  \/ InitWith([Plain EXCEPT !.contexts = {"live"}])
  \/ InitDisk
  \/ InitVolatile

\* The run by all the workers together in an environment that raises no
\* error.
InitWorkers ==
  InitWith([Plain EXCEPT !.workerCounts = {MaxWorkers}, !.budgets = {0}])

\* The runs of the engine: by all the workers together; by one worker over
\* the repositories of several importers; by one worker over any cache
\* file, with or without an exporter; and in an environment that acts on
\* the run.
Init ==
  \/ InitWorkers
  \/ InitWith([Plain EXCEPT !.importerLists = ImporterLists])
  \/ InitWith([Plain EXCEPT !.exportModes = BOOLEAN, !.files = InitialCacheFiles])
  \/ InitEnvironment

\* The runs of Init, the run of the large repository by all the workers,
\* and the runs by all the workers in which stages and cache saves fail.
InitLarge ==
  \/ Init
  \/ InitWith([Plain EXCEPT !.workerCounts = {MaxWorkers},
                            !.importerLists = {LargeRepository},
                            !.budgets = {0}])
  \/ InitWith([Plain EXCEPT !.workerCounts = {MaxWorkers},
                            !.importerLists = ImporterLists])

\* The run over the inputs of the operator and of the importer: by one
\* worker over any job storage and reprocess flag, or over any local paths,
\* and by the workers together over a storage that holds the first source
\* as exported.
InitInputs ==
  \/ InitWith([Plain EXCEPT !.reprocessFlags = ReprocessFlags,
                            !.storedJobs = InitialJobs,
                            !.importerLists = ImporterLists])
  \/ InitWith([Plain EXCEPT !.localPaths = ImporterPaths])
  \/ InitWith([Plain EXCEPT !.reprocessFlags = ReprocessFlags,
                            !.workerCounts = {MaxWorkers},
                            !.storedJobs = {StoredJobs(exported)},
                            !.budgets = {0}])
  \/ InitEnvironment

(***************************************************************************)
(* HashR.Run up to the start of the workers.                               *)
(***************************************************************************)
\* a variant in which Run gives up when newSources fails
NewSourcesError_Abort ==
  /\ runPc = "discover"
  /\ runPc' = "returned"
  /\ runResult' = "nil"
  /\ \E why \in {"DiscoverRepo", "FetchJobs"} :
       hist' = [hist EXCEPT !.skipped = why,
                            !.failedImporters = @ \cup {importer}]
  /\ UNCHANGED <<SourcesForReprocessing, LocalPath, Manifest, faults, Export,
                 ProcessingWorkerCount, jobs, processingSources,
                 cacheSaveCounter, mu, processingJobs, c, cacheFile, fs, pc,
                 w_source, extraction, samples, exports, loaded, counterRead,
                 saving, Importers, importer, ctx, storage, db, exporter,
                 missing, exportDisk, cacheDir, quickSha256hash, remote,
                 artifacts, instanceMap, inUse, images>>

\* newSources fails (DiscoverRepo or FetchJobs returns an error): Run logs
\* "skipping repo" and goes on to the next importer
NewSourcesError ==
  /\ runPc = "discover"
  /\ runPc' = "done"
  /\ \E why \in {"DiscoverRepo", "FetchJobs"} :
       hist' = [hist EXCEPT !.skipped = why,
                            !.failedImporters = @ \cup {importer}]
  /\ UNCHANGED <<SourcesForReprocessing, LocalPath, Manifest, faults, Export,
                 ProcessingWorkerCount, jobs, processingSources,
                 cacheSaveCounter, mu, processingJobs, c, cacheFile, fs, pc,
                 w_source, extraction, samples, exports, loaded, counterRead,
                 saving, Importers, importer, runResult, ctx, storage, db,
                 exporter, missing, exportDisk, cacheDir, quickSha256hash,
                 remote, artifacts, instanceMap, inUse, images>>

\* newSources succeeds; with no new source the repository is done
NewSources ==
  /\ runPc = "discover"
  /\ LET new == newSources(DiscoverRepo, FetchJobs(jobs), SourcesForReprocessing)
     IN /\ processingJobs' = new
        /\ hist' = [hist EXCEPT
                      !.dispatched = @ \cup {new[i] : i \in 1..Len(new)},
                      !.listed = @ \cup SourcesOf(importer),
                      !.firstHash = [s \in Sources |->
                                       IF @[s] = "" THEN Called(SourcesOf(importer))[s]
                                       ELSE @[s]],
                      !.stored = [q \in QuickHashes |->
                                    IF \E s \in SourcesOf(importer) : QuickSHA256Hash(s) = q
                                    THEN jobs[q] ELSE @[q]]]
        /\ runPc' = IF new = <<>> THEN "done" ELSE "load"
  /\ quickSha256hash' = Called(SourcesOf(importer))
  /\ UNCHANGED <<SourcesForReprocessing, LocalPath, Manifest, faults, Export,
                 ProcessingWorkerCount, jobs, processingSources,
                 cacheSaveCounter, mu, c, cacheFile, fs, pc, w_source,
                 extraction, samples, exports, loaded, counterRead, saving,
                 Importers, importer, runResult, ctx, storage, db, exporter,
                 missing, exportDisk, cacheDir, remote, artifacts,
                 instanceMap, inUse, images>>

\* cache.Load followed by the start of the workers.  readOK: ioutil.ReadFile
\* succeeds; removeOK: os.Remove succeeds.
Load(readOK, removeOK) ==
  /\ runPc = "load"
  /\ IF ~cacheFile.exists
     THEN \* os.Stat reports that the file does not exist
          /\ c' = EmptyCache
          /\ cacheFile' = cacheFile
          /\ runPc' = "workers"
          /\ hist' = [hist EXCEPT !.load = "absent", !.startKeys = {},
                                  !.loadedFrom = cacheFile,
                                  !.started = @ \cup {importer}]
     ELSE IF readOK /\ ~cacheFile.torn
     THEN /\ c' = Unmarshal(cacheFile.recs)
          /\ cacheFile' = cacheFile
          /\ runPc' = "workers"
          /\ hist' = [hist EXCEPT !.load = "loaded",
                                  !.startKeys = Keys(Unmarshal(cacheFile.recs)),
                                  !.loadedFrom = cacheFile,
                                  !.started = @ \cup {importer}]
     ELSE IF removeOK
     THEN \* read or unmarshal error: the file is removed
          /\ c' = EmptyCache
          /\ cacheFile' = NoFile
          /\ runPc' = "workers"
          /\ hist' = [hist EXCEPT !.load = "discarded", !.startKeys = {},
                                  !.loadedFrom = cacheFile,
                                  !.started = @ \cup {importer}]
     ELSE \* os.Remove fails: Load returns the error, Run skips the repository
          /\ c' = c
          /\ cacheFile' = cacheFile
          /\ runPc' = "done"
          /\ hist' = [hist EXCEPT !.load = "error", !.skipped = "Load",
                                  !.loadedFrom = cacheFile]
  /\ pc' = [w \in Workers |->
              IF runPc' = "workers" /\ w <= ProcessingWorkerCount THEN "idle" ELSE "off"]
  /\ UNCHANGED <<SourcesForReprocessing, LocalPath, Manifest, faults, Export,
                 ProcessingWorkerCount, jobs, processingSources,
                 cacheSaveCounter, mu, processingJobs, fs, w_source,
                 extraction, samples, exports, loaded, counterRead, saving,
                 Importers, importer, runResult, ctx, storage, db, exporter,
                 missing, exportDisk, cacheDir, quickSha256hash, remote,
                 artifacts, instanceMap, inUse, images>>

(***************************************************************************)
(* HashR.handleError: the record of the source becomes failed with the     *)
(* error text, the storage is updated, the base directory is cleaned up.   *)
(* dirs is the disk as the failed stage left it.                           *)
(***************************************************************************)
\* a variant after which the worker goes on to the cache check of the
\* source instead of taking the next one
handleError_GoOn(w, dirs, extractionBaseDir, err) ==
  LET s == w_source[w]
      quickHash == QuickSHA256Hash(s)
      p == [processingSources[quickHash] EXCEPT !.Status = failed, !.Error = err]
  IN /\ processingSources' = [processingSources EXCEPT ![quickHash] = p]
     /\ jobs' = [jobs EXCEPT ![quickHash] = p]
     /\ fs' = dirs
     /\ pc' = [pc EXCEPT ![w] = "check"]
     /\ w_source' = w_source
     /\ extraction' = extraction
     /\ samples' = samples
     /\ exports' = exports
     /\ loaded' = loaded

handleError(w, dirs, extractionBaseDir, err) ==
  LET s == w_source[w]
      quickHash == QuickSHA256Hash(s)
      p == [processingSources[quickHash] EXCEPT !.Status = failed, !.Error = err]
  IN /\ processingSources' = [processingSources EXCEPT ![quickHash] = p]
     /\ jobs' = TryUpdateJobs(jobs, quickHash, p)
     /\ fs' = cleanupLocalStorage(dirs, extractionBaseDir)
     /\ pc' = [pc EXCEPT ![w] = "idle"]
     /\ w_source' = [w_source EXCEPT ![w] = 0]
     /\ extraction' = [extraction EXCEPT ![w] = NoExtraction]
     /\ samples' = [samples EXCEPT ![w] = <<>>]
     /\ exports' = [exports EXCEPT ![w] = <<>>]
     /\ loaded' = [loaded EXCEPT ![w] = NoEntries]

(***************************************************************************)
(* processingWorker: receive the next source, create its record.           *)
(***************************************************************************)
Receive(w) ==
  /\ pc[w] = "idle"
  /\ processingJobs # <<>>
  /\ LET source == Head(processingJobs)
         qHash == QuickSHA256Hash(source)
         p == ProcessingSource(ID(source), discovered)
     IN /\ processingJobs' = Tail(processingJobs)
        /\ quickSha256hash' = Called({source})
        /\ IF QuickHashError(source)
           THEN \* could not calculate quick sha256 value: continue
                UNCHANGED <<w_source, processingSources, jobs, pc,
                            instanceMap, inUse, images>>
           ELSE /\ w_source' = [w_source EXCEPT ![w] = source]
                /\ processingSources' = [processingSources EXCEPT ![qHash] = p]
                /\ jobs' = TryUpdateJobs(jobs, qHash, p)
                /\ pc' = [pc EXCEPT ![w] = "process"]
  /\ UNCHANGED <<runPc, SourcesForReprocessing, LocalPath, Manifest, faults,
                 Export, ProcessingWorkerCount, cacheSaveCounter, mu, c,
                 cacheFile, fs, extraction, samples, exports, loaded,
                 counterRead, saving, hist, Importers, importer, runResult,
                 ctx, storage, db, exporter, missing, exportDisk, cacheDir,
                 remote, artifacts, instanceMap, inUse, images>>

\* a variant in which a worker also returns when the job storage fails
Exit_OnStorageError(w) ==
  /\ pc[w] = "idle"
  /\ processingJobs = <<>> \/ storage = "down"
  /\ pc' = [pc EXCEPT ![w] = "exit"]
  /\ UNCHANGED <<runPc, SourcesForReprocessing, LocalPath, Manifest, faults,
                 Export, ProcessingWorkerCount, jobs, processingSources,
                 cacheSaveCounter, mu, processingJobs, c, cacheFile, fs,
                 w_source, extraction, samples, exports, loaded, counterRead,
                 saving, hist, Importers, importer, runResult, ctx, storage,
                 db, exporter, missing, exportDisk, cacheDir, quickSha256hash,
                 remote, artifacts, instanceMap, inUse, images>>

\* the channel is closed and drained: the worker returns
Exit(w) ==
  /\ pc[w] = "idle"
  /\ processingJobs = <<>>
  /\ pc' = [pc EXCEPT ![w] = "exit"]
  /\ UNCHANGED <<runPc, SourcesForReprocessing, LocalPath, Manifest, faults,
                 Export, ProcessingWorkerCount, jobs, processingSources,
                 cacheSaveCounter, mu, processingJobs, c, cacheFile, fs,
                 w_source, extraction, samples, exports, loaded, counterRead,
                 saving, hist, Importers, importer, runResult, ctx, storage,
                 db, exporter, missing, exportDisk, cacheDir, quickSha256hash,
                 remote, artifacts, instanceMap, inUse, images>>

(***************************************************************************)
(* HashR.process: Preprocess, sha256sum, ImageExport.                      *)
(***************************************************************************)
\* the text of the error process returns for a failed stage
ProcessError(stage) ==
  CASE stage = "preprocess" -> "error while preprocessing: failed"
    [] stage = "hash" -> "error while hashing: failed"
    [] stage = "extract" -> "error while processing: failed"

\* Preprocess returns an error, before or after it made the temporary
\* directory of the source; process returns an empty Extraction
ProcessPreprocessError(w, madeDir) ==
  /\ pc[w] = "process"
  /\ faults > 0
  /\ faults' = faults - 1
  /\ LET s == w_source[w]
         dirs == IF madeDir THEN fs \cup {TempDir(s)} ELSE fs
     IN /\ handleError(w, dirs, NoExtraction.BaseDir, ProcessError("preprocess"))
        /\ hist' = [hist EXCEPT !.stages[s] = @ \o <<"preprocess", "cleanup">>,
                                !.failedAt[s] = "preprocess",
                                !.finished = @ \cup {s},
                                !.created[s] = IF madeDir THEN TempDir(s) ELSE <<>>]
  /\ UNCHANGED <<runPc, SourcesForReprocessing, LocalPath, Manifest, Export,
                 ProcessingWorkerCount, cacheSaveCounter, mu, processingJobs,
                 c, cacheFile, counterRead, saving, Importers, importer,
                 runResult, ctx, storage, db, exporter, missing, exportDisk,
                 cacheDir, quickSha256hash, remote, artifacts, instanceMap,
                 inUse, images>>

\* Preprocess succeeds; sha256sum or ImageExport
\* returns an error
ProcessError2(w, stage) ==
  /\ pc[w] = "process"
  /\ faults > 0
  /\ faults' = faults - 1
  /\ LET s == w_source[w]
         localPath == LocalPath[s]
         own == HasPrefix(localPath, TempDir(s))
         dirs == IF own THEN fs \cup {TempDir(s)} ELSE fs
         done == IF stage = "hash" THEN <<"preprocess", "hash", "cleanup">>
                 ELSE <<"preprocess", "hash", "extract", "cleanup">>
     IN /\ handleError(w, dirs, SplitDir(localPath), ProcessError(stage))
        /\ hist' = [hist EXCEPT !.stages[s] = @ \o done,
                                !.failedAt[s] = stage,
                                !.finished = @ \cup {s},
                                !.created[s] = IF own THEN TempDir(s) ELSE <<>>]
  /\ UNCHANGED <<runPc, SourcesForReprocessing, LocalPath, Manifest, Export,
                 ProcessingWorkerCount, cacheSaveCounter, mu, processingJobs,
                 c, cacheFile, counterRead, saving, Importers, importer,
                 runResult, ctx, storage, db, exporter, missing, exportDisk,
                 cacheDir, quickSha256hash, remote, artifacts, instanceMap,
                 inUse, images>>

\* process succeeds: the record gets the full digest and status processed
ProcessOK(w) ==
  /\ pc[w] = "process"
  /\ LET s == w_source[w]
         localPath == LocalPath[s]
         qHash == QuickSHA256Hash(s)
         own == HasPrefix(localPath, TempDir(s))
         baseDir == SplitDir(localPath)
         p == [processingSources[qHash] EXCEPT !.Sha256 = SourceSHA256(s),
                                                !.Status = processed]
     IN /\ fs' = IF own THEN fs \cup {TempDir(s)} ELSE fs
        /\ extraction' = [extraction EXCEPT ![w] =
                            [SourceID |-> ID(s), BaseDir |-> baseDir,
                             SourceSHA256 |-> SourceSHA256(s),
                             Path |-> Join(baseDir, <<"export", "/">>)]]
        /\ processingSources' = [processingSources EXCEPT ![qHash] = p]
        /\ jobs' = TryUpdateJobs(jobs, qHash, p)
        /\ hist' = [hist EXCEPT !.stages[s] = @ \o <<"preprocess", "hash", "extract">>,
                                !.created[s] = IF own THEN TempDir(s) ELSE <<>>]
  /\ pc' = [pc EXCEPT ![w] = "check"]
  /\ UNCHANGED <<runPc, SourcesForReprocessing, LocalPath, Manifest, faults,
                 Export, ProcessingWorkerCount, cacheSaveCounter, mu,
                 processingJobs, c, cacheFile, w_source, samples, exports,
                 loaded, counterRead, saving, Importers, importer, runResult,
                 ctx, storage, db, exporter, missing, exportDisk, cacheDir,
                 quickSha256hash, remote, artifacts, instanceMap, inUse,
                 images>>

(***************************************************************************)
(* cache.readJSON and cache.Check.  Check handles the manifest entries one *)
(* by one; the cache.Load of an entry and the following append or          *)
(* cache.Store are separate steps, with no lock held.                      *)
(***************************************************************************)
\* readJSON: the samples of the manifest, paths joined onto extraction.Path
readJSON(e, manifest) ==
  [i \in 1..Len(manifest) |->
     [Sha256 |-> manifest[i].Sha256,
      Paths |-> [j \in 1..Len(manifest[i].Paths) |-> Join(e.Path, manifest[i].Paths[j])],
      Upload |-> FALSE]]

CheckError == "error while reading hashes.json file: failed"

\* the record of the source after Check: status cached
Cached(p) == [p EXCEPT !.Status = cached]

\* readJSON fails: Check returns the error
CheckReadError(w) ==
  /\ pc[w] = "check"
  /\ faults > 0
  /\ faults' = faults - 1
  /\ handleError(w, fs, extraction[w].BaseDir, CheckError)
  /\ hist' = [hist EXCEPT !.stages[w_source[w]] = @ \o <<"check", "cleanup">>,
                          !.failedAt[w_source[w]] = "check",
                          !.finished = @ \cup {w_source[w]}]
  /\ UNCHANGED <<runPc, SourcesForReprocessing, LocalPath, Manifest, Export,
                 ProcessingWorkerCount, cacheSaveCounter, mu, processingJobs,
                 c, cacheFile, counterRead, saving, Importers, importer,
                 runResult, ctx, storage, db, exporter, missing, exportDisk,
                 cacheDir, quickSha256hash, remote, artifacts, instanceMap,
                 inUse, images>>

\* readJSON succeeds; with an empty manifest Check returns at once
CheckRead(w) ==
  /\ pc[w] = "check"
  /\ LET s == w_source[w]
         qHash == QuickSHA256Hash(s)
         manifest == Manifest[s]
     IN /\ samples' = [samples EXCEPT ![w] = readJSON(extraction[w], manifest)]
        /\ exports' = [exports EXCEPT ![w] = <<>>]
        /\ hist' = [hist EXCEPT !.stages[s] = @ \o <<"check">>,
                                !.checkStart[w] = IF manifest = <<>> THEN EmptyCache ELSE c]
        /\ IF manifest = <<>>
           THEN /\ processingSources' =
                     [processingSources EXCEPT ![qHash] = Cached(@)]
                /\ jobs' = TryUpdateJobs(jobs, qHash, Cached(processingSources[qHash]))
                /\ pc' = [pc EXCEPT ![w] = "lock"]
           ELSE /\ UNCHANGED <<processingSources, jobs>>
                /\ pc' = [pc EXCEPT ![w] = "check_load"]
  /\ UNCHANGED <<runPc, SourcesForReprocessing, LocalPath, Manifest, faults,
                 Export, ProcessingWorkerCount, cacheSaveCounter, mu,
                 processingJobs, c, cacheFile, fs, w_source, extraction,
                 loaded, counterRead, saving, Importers, importer, runResult,
                 ctx, storage, db, exporter, missing, exportDisk, cacheDir,
                 quickSha256hash, remote, artifacts, instanceMap, inUse,
                 images>>

\* cache.Load(sample.Sha256) for the next sample
CheckLoad(w) ==
  /\ pc[w] = "check_load"
  /\ LET sample == samples[w][Len(exports[w]) + 1]
     IN loaded' = [loaded EXCEPT ![w] = c[sample.Sha256]]
  /\ pc' = [pc EXCEPT ![w] = "check_store"]
  /\ UNCHANGED <<runPc, SourcesForReprocessing, LocalPath, Manifest, faults,
                 Export, ProcessingWorkerCount, jobs, processingSources,
                 cacheSaveCounter, mu, processingJobs, c, cacheFile, fs,
                 w_source, extraction, samples, exports, counterRead, saving,
                 hist, Importers, importer, runResult, ctx, storage, db,
                 exporter, missing, exportDisk, cacheDir, quickSha256hash,
                 remote, artifacts, instanceMap, inUse, images>>

\* Is the cpb.Entries object the map holds now the one that was loaded?  A
\* Store replaces the object by one that starts with the storer's entry, and
\* an append keeps the first entry, so the first entries tell.
SameObject(current, hit) ==
  \/ hit.Entries = <<>>
  \/ current.Entries # <<>> /\ Head(current.Entries) = Head(hit.Entries)

\* The cache after the sample is handled.  On a hit the entry is appended to
\* the loaded cpb.Entries; the append is an unsynchronised read and write of
\* the slice, so it extends either the current slice or the one that was
\* current at the Load; if the object was replaced in the map since the
\* Load, the append does not reach the map.  On a miss a fresh cpb.Entries
\* is stored.
CheckedCaches(cache, hit, digest, newCacheEntry) ==
  IF ~hit.present
  THEN {[cache EXCEPT ![digest] = Entries(<<newCacheEntry>>)]}
  ELSE IF ~SameObject(cache[digest], hit)
  THEN {cache}
  ELSE {[cache EXCEPT ![digest] = Entries(Append(base, newCacheEntry))] :
          base \in {cache[digest].Entries, hit.Entries}}

\* the sample Check appends to its result
newExport(sample, hit) ==
  [Sha256 |-> sample.Sha256, Paths |-> sample.Paths, Upload |-> ~hit.present]

\* append or Store for the sample, and the end of Check after the last one
CheckStore(w) ==
  /\ pc[w] = "check_store"
  /\ LET s == w_source[w]
         qHash == QuickSHA256Hash(s)
         sample == samples[w][Len(exports[w]) + 1]
         export == newExport(sample, loaded[w])
         newCacheEntry == CacheEntry(extraction[w].SourceID, extraction[w].SourceSHA256)
         last == Len(exports[w]) + 1 = Len(samples[w])
     IN /\ c' \in CheckedCaches(c, loaded[w], sample.Sha256, newCacheEntry)
        /\ exports' = [exports EXCEPT ![w] = Append(@, export)]
        /\ hist' = [hist EXCEPT !.uploads[sample.Sha256] =
                                   IF export.Upload THEN @ + 1 ELSE @,
                                !.observed = @ \cup {sample.Sha256},
                                !.checkStart[w] = IF last THEN EmptyCache ELSE @]
        /\ IF last
           THEN /\ processingSources' =
                     [processingSources EXCEPT ![qHash] = Cached(@)]
                /\ jobs' = TryUpdateJobs(jobs, qHash, Cached(processingSources[qHash]))
                /\ pc' = [pc EXCEPT ![w] = "lock"]
           ELSE /\ UNCHANGED <<processingSources, jobs>>
                /\ pc' = [pc EXCEPT ![w] = "check_load"]
  /\ loaded' = [loaded EXCEPT ![w] = NoEntries]
  /\ UNCHANGED <<runPc, SourcesForReprocessing, LocalPath, Manifest, faults,
                 Export, ProcessingWorkerCount, cacheSaveCounter, mu,
                 processingJobs, cacheFile, fs, w_source, extraction, samples,
                 counterRead, saving, Importers, importer, runResult, ctx,
                 storage, db, exporter, missing, exportDisk, cacheDir,
                 quickSha256hash, remote, artifacts, instanceMap, inUse,
                 images>>

(***************************************************************************)
(* cache.Save: Range over the map, proto.Marshal, os.Create, Write.  The   *)
(* file is truncated by os.Create and filled by Write; it is not closed,   *)
(* synced or renamed.                                                      *)
(***************************************************************************)
\* os.Create: ok truncates the file; otherwise Save returns the error
Create(file, ok) == IF ok THEN File(<<>>, FALSE) ELSE file

\* cacheFile.Write: the files it may leave; all of data on success
Written(data) == {File(data, FALSE)} \cup PartialWrites(data)

\* a variant in which the worker leaves the critical section with the
\* mutex still locked
Unlock_Missing(w) == mu' = mu

\* h.mu.Unlock() by worker w
Unlock(w) == mu' = 0

(***************************************************************************)
(* processingWorker: the region under h.mu.                                *)
(***************************************************************************)
\* h.mu.Lock(), then the test of the save counter
Lock(w) ==
  /\ pc[w] = "lock"
  /\ mu = 0
  /\ mu' = w
  /\ pc' = [pc EXCEPT ![w] = IF cacheSaveCounter > SaveEvery THEN "save" ELSE "export"]
  /\ UNCHANGED <<runPc, SourcesForReprocessing, LocalPath, Manifest, faults,
                 Export, ProcessingWorkerCount, jobs, processingSources,
                 cacheSaveCounter, processingJobs, c, cacheFile, fs, w_source,
                 extraction, samples, exports, loaded, counterRead, saving,
                 hist, Importers, importer, runResult, ctx, storage, db,
                 exporter, missing, exportDisk, cacheDir, quickSha256hash,
                 remote, artifacts, instanceMap, inUse, images>>

\* periodic cache.Save up to os.Create; on an error the save is over
PeriodicSaveCreate(w, ok) ==
  /\ pc[w] = "save"
  /\ ok \/ faults > 0
  /\ faults' = IF ok THEN faults ELSE faults - 1
  /\ \E data \in Marshal(c) :
       /\ cacheFile' = Create(cacheFile, ok)
       /\ saving' = IF ok THEN [active |-> TRUE, data |-> data] ELSE NoSave
       /\ hist' = [hist EXCEPT !.fileBefore = cacheFile, !.saveData = data,
                               !.saves = @ + 1]
  /\ pc' = [pc EXCEPT ![w] = IF ok THEN "save_write" ELSE "export"]
  /\ cacheSaveCounter' = IF ok THEN cacheSaveCounter ELSE 0
  /\ UNCHANGED <<runPc, SourcesForReprocessing, LocalPath, Manifest, Export,
                 ProcessingWorkerCount, jobs, processingSources, mu,
                 processingJobs, c, fs, w_source, extraction, samples,
                 exports, loaded, counterRead, Importers, importer, runResult,
                 ctx, storage, db, exporter, missing, exportDisk, cacheDir,
                 quickSha256hash, remote, artifacts, instanceMap, inUse,
                 images>>

\* periodic cache.Save: the Write, then the counter is reset
PeriodicSaveWrite(w) ==
  /\ pc[w] = "save_write"
  /\ \E file \in Written(saving.data) :
       /\ cacheFile' = file
       /\ file = File(saving.data, FALSE) \/ faults > 0
       /\ faults' = IF file = File(saving.data, FALSE) THEN faults ELSE faults - 1
  /\ saving' = NoSave
  /\ cacheSaveCounter' = 0
  /\ pc' = [pc EXCEPT ![w] = "export"]
  /\ UNCHANGED <<runPc, SourcesForReprocessing, LocalPath, Manifest, Export,
                 ProcessingWorkerCount, jobs, processingSources, mu,
                 processingJobs, c, fs, w_source, extraction, samples,
                 exports, loaded, counterRead, hist, Importers, importer,
                 runResult, ctx, storage, db, exporter, missing, exportDisk,
                 cacheDir, quickSha256hash, remote, artifacts, instanceMap,
                 inUse, images>>

\* number of samples with Upload set
RECURSIVE uploadCount(_)
uploadCount(ss) ==
  IF ss = <<>> THEN 0
  ELSE (IF Head(ss).Upload THEN 1 ELSE 0) + uploadCount(Tail(ss))

ExportError == "export failed"

(***************************************************************************)
(* Exporter.Export after insertSource has succeeded: the samples are       *)
(* handled one by one; an error for a sample is logged, the sample is      *)
(* skipped and Export returns nil all the same.  bad is the index of the   *)
(* sample an error occurs for (0: none), call is the call that fails.      *)
(***************************************************************************)
RECURSIVE InsertSamples(_, _, _, _, _)
InsertSamples(table, sourceHash, list, bad, call) ==
  IF list = <<>> THEN table
  ELSE LET sample == Head(list)
           row == IF bad = 1 /\ call \in {"sampleExists", "insertSample"}
                  THEN table.samples
                  ELSE table.samples \cup {sample.Sha256}
           rel == IF bad = 1
                  THEN table.samples_sources
                  ELSE table.samples_sources \cup {<<sample.Sha256, sourceHash>>}
       IN InsertSamples([table EXCEPT !.samples = row, !.samples_sources = rel],
                        sourceHash, Tail(list), bad - 1, call)

ExporterExport(table, sourceHash, list, bad, call) ==
  InsertSamples([table EXCEPT !.sources = @ \cup {sourceHash}],
                sourceHash, list, bad, call)

\* Exporter.Export, or saveSamples when h.Export is false, returns an
\* error; an exporter that passes the context on to its client (gcp) fails
\* when the context is cancelled
ExportFails(w) ==
  /\ pc[w] = "export"
  /\ faults > 0 \/ (Export /\ ctx = "cancelled")
  /\ faults' = IF Export /\ ctx = "cancelled" THEN faults ELSE faults - 1
  /\ handleError(w, fs, extraction[w].BaseDir, ExportError)
  /\ hist' = [hist EXCEPT !.stages[w_source[w]] = @ \o <<"export", "cleanup">>,
                          !.failedAt[w_source[w]] = "export",
                          !.finished = @ \cup {w_source[w]}]
  /\ Unlock(w)
  /\ UNCHANGED <<runPc, SourcesForReprocessing, LocalPath, Manifest, Export,
                 ProcessingWorkerCount, cacheSaveCounter, processingJobs, c,
                 cacheFile, counterRead, saving, Importers, importer,
                 runResult, ctx, storage, db, exporter, missing, exportDisk,
                 cacheDir, quickSha256hash, remote, artifacts, instanceMap,
                 inUse, images>>

(***************************************************************************)
(* HashR.saveSamples: the samples are saved under ExportPath, in the       *)
(* directory <repo>___<source id>___<source sha256>, one directory per     *)
(* sample with Upload set, and a samples.json is written.                  *)
(***************************************************************************)
\* os.Stat(path) succeeds: the file the path ends with is on the disk
Stat(path) ==
  /\ path # <<>>
  /\ \A m \in missing :
       ~(Len(path) >= Len(m) /\ SubSeq(path, Len(path) - Len(m) + 1, Len(path)) = m)

\* a variant that looks at the first path only
FirstValid_Head(paths) ==
  IF paths # <<>> /\ Stat(Head(paths)) THEN Head(paths) ELSE <<>>

\* the first path of the sample that is valid; "" when there is none
RECURSIVE FirstValid(_)
FirstValid(paths) ==
  IF paths = <<>> THEN <<>>
  ELSE IF Stat(Head(paths)) THEN Head(paths)
  ELSE FirstValid(Tail(paths))

\* the loop over the samples: the directories and files after it, the list
\* for samples.json, and whether it returned an error
RECURSIVE saveLoop(_, _, _, _, _)
saveLoop(destDir, list, dirs, files, samplesOut) ==
  IF list = <<>>
  THEN [err |-> FALSE, dirs |-> dirs, files |-> files, samplesOut |-> samplesOut]
  ELSE LET sample == Head(list)
           dir == SampleDir(destDir, sample.Sha256)
           samplePath == FirstValid(sample.Paths)
           destFile == Join(dir, <<Base(samplePath)>>)
       IN IF ~sample.Upload
          THEN saveLoop(destDir, Tail(list), dirs, files,
                        Append(samplesOut, [Sha256 |-> sample.Sha256, Paths |-> <<>>,
                                            Upload |-> FALSE]))
          ELSE IF dir \in dirs
          THEN \* os.Mkdir: the directory exists
               [err |-> TRUE, dirs |-> dirs, files |-> files, samplesOut |-> samplesOut]
          ELSE IF samplePath = <<>>
          THEN \* ioutil.ReadFile(""): no such file
               [err |-> TRUE, dirs |-> dirs \cup {dir}, files |-> files,
                samplesOut |-> samplesOut]
          ELSE saveLoop(destDir, Tail(list), dirs \cup {dir},
                        files \cup {[path |-> destFile, from |-> samplePath]},
                        Append(samplesOut, [Sha256 |-> sample.Sha256,
                                            Paths |-> <<destFile>>,
                                            Upload |-> TRUE]))

saveSamples(sourceImporter, sourceID, sourceHash, list, dirs, disk) ==
  LET destDir == DestDir(sourceImporter, sourceID, sourceHash)
      r == saveLoop(destDir, list, dirs \cup {ExportPath, destDir}, disk.files, <<>>)
  IN [err |-> r.err,
      dirs |-> r.dirs,
      disk |-> [files |-> r.files,
                json |-> IF r.err THEN disk.json
                         ELSE disk.json \cup {[dir |-> destDir, samples |-> r.samplesOut]}]]

\* what saveSamples does for the source of worker w
Saved(w) ==
  saveSamples(RepoName(importer), extraction[w].SourceID, extraction[w].SourceSHA256,
              exports[w], fs, exportDisk)

\* saveSamples returns the error of os.Mkdir or of ioutil.ReadFile
SaveSamplesFails(w) ==
  /\ pc[w] = "export"
  /\ ~Export
  /\ Saved(w).err
  /\ handleError(w, Saved(w).dirs, extraction[w].BaseDir, ExportError)
  /\ exportDisk' = Saved(w).disk
  /\ hist' = [hist EXCEPT !.stages[w_source[w]] = @ \o <<"export", "cleanup">>,
                          !.failedAt[w_source[w]] = "export",
                          !.finished = @ \cup {w_source[w]},
                          !.samplesOf[w_source[w]] = exports[w]]
  /\ Unlock(w)
  /\ UNCHANGED <<runPc, SourcesForReprocessing, LocalPath, Manifest, Export,
                 ProcessingWorkerCount, cacheSaveCounter, processingJobs, c,
                 cacheFile, counterRead, saving, Importers, importer,
                 runResult, ctx, storage, db, exporter, missing, faults,
                 cacheDir, quickSha256hash, remote, artifacts, instanceMap,
                 inUse, images>>

\* the calls of the exporter for one sample
ExportCalls == {"sampleExists", "insertSample", "insertRelationship"}

\* Export, or saveSamples, returns nil: status exported, clean-up,
\* h.mu.Unlock().  With bad > 0 the exporter has skipped a sample.
ExportOK(w) ==
  \E bad \in 0..Len(exports[w]), call \in ExportCalls :
    /\ pc[w] = "export"
    /\ Export \/ ~Saved(w).err
    /\ bad = 0 \/ (Export /\ exporter = "faulty" /\ faults > 0)
    /\ exportDisk' = IF Export THEN exportDisk ELSE Saved(w).disk
    /\ faults' = IF bad = 0 THEN faults ELSE faults - 1
    /\ db' = IF Export
             THEN ExporterExport(db, extraction[w].SourceSHA256, exports[w], bad, call)
             ELSE db
    /\ LET s == w_source[w]
           qHash == QuickSHA256Hash(s)
           counted == IF Export
                      THEN [processingSources[qHash] EXCEPT
                              !.SampleCount = Len(exports[w]),
                              !.ExportCount = uploadCount(exports[w])]
                      ELSE processingSources[qHash]
           p == [counted EXCEPT !.Status = exported]
           dirs == IF Export THEN fs ELSE Saved(w).dirs
       IN /\ processingSources' = [processingSources EXCEPT ![qHash] = p]
          /\ jobs' = TryUpdateJobs(jobs, qHash, p)
          /\ fs' = cleanupLocalStorage(dirs, extraction[w].BaseDir)
          /\ hist' = [hist EXCEPT !.stages[s] = @ \o <<"export", "cleanup">>,
                                  !.finished = @ \cup {s},
                                  !.samplesOf[s] = exports[w]]
    /\ Unlock(w)
    /\ pc' = [pc EXCEPT ![w] = "count"]
    /\ w_source' = [w_source EXCEPT ![w] = 0]
    /\ extraction' = [extraction EXCEPT ![w] = NoExtraction]
    /\ samples' = [samples EXCEPT ![w] = <<>>]
    /\ exports' = [exports EXCEPT ![w] = <<>>]
    /\ UNCHANGED <<runPc, SourcesForReprocessing, LocalPath, Manifest, Export,
                   ProcessingWorkerCount, cacheSaveCounter, processingJobs, c,
                   cacheFile, loaded, counterRead, saving, Importers,
                   importer, runResult, ctx, storage, exporter, missing,
                   cacheDir, quickSha256hash, remote, artifacts, instanceMap,
                   inUse, images>>

\* h.cacheSaveCounter++ after the unlock: an unsynchronised read ...
CounterRead(w) ==
  /\ pc[w] = "count"
  /\ counterRead' = [counterRead EXCEPT ![w] = cacheSaveCounter]
  /\ pc' = [pc EXCEPT ![w] = "count_write"]
  /\ UNCHANGED <<runPc, SourcesForReprocessing, LocalPath, Manifest, faults,
                 Export, ProcessingWorkerCount, jobs, processingSources,
                 cacheSaveCounter, mu, processingJobs, c, cacheFile, fs,
                 w_source, extraction, samples, exports, loaded, saving, hist,
                 Importers, importer, runResult, ctx, storage, db, exporter,
                 missing, exportDisk, cacheDir, quickSha256hash, remote,
                 artifacts, instanceMap, inUse, images>>

\* ... and write
CounterWrite(w) ==
  /\ pc[w] = "count_write"
  /\ cacheSaveCounter' = counterRead[w] + 1
  /\ counterRead' = [counterRead EXCEPT ![w] = 0]
  /\ pc' = [pc EXCEPT ![w] = "idle"]
  /\ UNCHANGED <<runPc, SourcesForReprocessing, LocalPath, Manifest, faults,
                 Export, ProcessingWorkerCount, jobs, processingSources, mu,
                 processingJobs, c, cacheFile, fs, w_source, extraction,
                 samples, exports, loaded, saving, hist, Importers, importer,
                 runResult, ctx, storage, db, exporter, missing, exportDisk,
                 cacheDir, quickSha256hash, remote, artifacts, instanceMap,
                 inUse, images>>

(***************************************************************************)
(* HashR.Run after h.wg.Wait(): the final cache.Save.                      *)
(***************************************************************************)
\* a variant that does not wait for the workers
Wait_None == TRUE

\* h.wg.Wait(): every worker has returned
Wait == \A w \in Workers : pc[w] \in {"off", "exit"}

FinalSaveCreate(ok) ==
  /\ runPc = "workers"
  /\ ok \/ faults > 0
  /\ faults' = IF ok THEN faults ELSE faults - 1
  /\ Wait
  /\ \E data \in Marshal(c) :
       /\ cacheFile' = Create(cacheFile, ok)
       /\ saving' = IF ok THEN [active |-> TRUE, data |-> data] ELSE NoSave
       /\ hist' = [hist EXCEPT !.fileBefore = cacheFile, !.saveData = data,
                               !.saves = @ + 1,
                               !.saved = @ \cup {importer},
                               !.finalSave = IF ok THEN "" ELSE "error"]
  /\ runPc' = IF ok THEN "save_write" ELSE "done"
  /\ UNCHANGED <<SourcesForReprocessing, LocalPath, Manifest, Export,
                 ProcessingWorkerCount, jobs, processingSources,
                 cacheSaveCounter, mu, processingJobs, c, fs, pc, w_source,
                 extraction, samples, exports, loaded, counterRead, Importers,
                 importer, runResult, ctx, storage, db, exporter, missing,
                 exportDisk, cacheDir, quickSha256hash, remote, artifacts,
                 instanceMap, inUse, images>>

FinalSaveWrite ==
  /\ runPc = "save_write"
  /\ \E file \in Written(saving.data) :
       /\ cacheFile' = file
       /\ file = File(saving.data, FALSE) \/ faults > 0
       /\ faults' = IF file = File(saving.data, FALSE) THEN faults ELSE faults - 1
  /\ saving' = NoSave
  /\ runPc' = "done"
  /\ hist' = [hist EXCEPT !.finalSave =
                 IF cacheFile' = File(saving.data, FALSE) THEN "ok" ELSE "error"]
  /\ UNCHANGED <<SourcesForReprocessing, LocalPath, Manifest, Export,
                 ProcessingWorkerCount, jobs, processingSources,
                 cacheSaveCounter, mu, processingJobs, c, fs, pc, w_source,
                 extraction, samples, exports, loaded, counterRead, Importers,
                 importer, runResult, ctx, storage, db, exporter, missing,
                 exportDisk, cacheDir, quickSha256hash, remote, artifacts,
                 instanceMap, inUse, images>>

(***************************************************************************)
(* The artifact of a source is replaced, changed or removed after the      *)
(* source has calculated its quick hash; a change before that is another   *)
(* initial artifact.                                                       *)
(***************************************************************************)
ArtifactChanges(s) ==
  /\ s \in artifacts
  /\ quickSha256hash[s] # ""
  /\ s \notin hist.finished
  /\ remote' \in {[remote EXCEPT ![s] = v] : v \in (QuickHashes \cup {Unreadable}) \ {remote[s]}}
  /\ UNCHANGED <<runPc, SourcesForReprocessing, Export, ProcessingWorkerCount,
                 jobs, processingSources, cacheSaveCounter, mu,
                 processingJobs, c, cacheFile, fs, LocalPath, Manifest,
                 faults, pc, w_source, extraction, samples, exports, loaded,
                 counterRead, saving, Importers, importer, runResult, ctx,
                 storage, db, exporter, missing, exportDisk, cacheDir,
                 quickSha256hash, artifacts, hist, instanceMap, inUse, images>>

(***************************************************************************)
(* HashR.Run: the loop over the importers, and the return.                 *)
(***************************************************************************)
\* the next iteration of the loop: the cache and the queue of the iteration
\* before are gone; the file of the repository stays in the cache directory
\* and cacheFile becomes the file of the next repository
NextImporter ==
  /\ runPc = "done"
  /\ importer < NumImporters
  /\ importer' = importer + 1
  /\ runPc' = "discover"
  /\ c' = EmptyCache
  /\ cacheDir' = [cacheDir EXCEPT ![cachePath(RepoName(importer))] = cacheFile]
  /\ cacheFile' = cacheDir'[cachePath(RepoName(importer + 1))]
  /\ hist' = [hist EXCEPT !.skipped = "", !.load = "", !.loadedFrom = NoFile,
                          !.startKeys = {}, !.observed = {}, !.finalSave = "",
                          !.uploads = [d \in Digests |-> 0],
                          !.checkStart = [w \in Workers |-> EmptyCache],
                          !.fileBefore = NoFile, !.saveData = <<>>,
                          !.saves = 0]
  /\ UNCHANGED <<SourcesForReprocessing, Export, ProcessingWorkerCount, jobs,
                 processingSources, cacheSaveCounter, mu, processingJobs, fs,
                 LocalPath, Manifest, faults, pc, w_source, extraction,
                 samples, exports, loaded, counterRead, saving, Importers,
                 runResult, ctx, storage, db, exporter, missing, exportDisk,
                 quickSha256hash, remote, artifacts, instanceMap, inUse,
                 images>>

\* a variant that returns an error when an importer was skipped or a source
\* has failed
Return_Error ==
  /\ runPc = "done"
  /\ importer = NumImporters
  /\ runPc' = "returned"
  /\ runResult' = IF \/ hist.failedImporters # {}
                     \/ hist.skipped # ""
                     \/ hist.finalSave = "error"
                     \/ \E s \in Sources : hist.failedAt[s] # ""
                  THEN "error" ELSE "nil"
  /\ UNCHANGED <<SourcesForReprocessing, Export, ProcessingWorkerCount, jobs,
                 processingSources, cacheSaveCounter, mu, processingJobs, c,
                 cacheFile, fs, LocalPath, Manifest, faults, pc, w_source,
                 extraction, samples, exports, loaded, counterRead, saving,
                 Importers, importer, ctx, storage, hist, db, exporter,
                 missing, exportDisk, cacheDir, quickSha256hash, remote,
                 artifacts, instanceMap, inUse, images>>

\* the loop is over: return nil
Return ==
  /\ runPc = "done"
  /\ importer = NumImporters
  /\ runPc' = "returned"
  /\ runResult' = "nil"
  /\ UNCHANGED <<SourcesForReprocessing, Export, ProcessingWorkerCount, jobs,
                 processingSources, cacheSaveCounter, mu, processingJobs, c,
                 cacheFile, fs, LocalPath, Manifest, faults, pc, w_source,
                 extraction, samples, exports, loaded, counterRead, saving,
                 Importers, importer, ctx, storage, hist, db, exporter,
                 missing, exportDisk, cacheDir, quickSha256hash, remote,
                 artifacts, instanceMap, inUse, images>>

(***************************************************************************)
(* The map processingSources is shared by the workers and accessed with no *)
(* lock held: Receive inserts into it, and every later step of a source    *)
(* reads it.  An insert of one worker that overlaps an access of another   *)
(* is a data race on a Go map; the runtime may stop the whole process      *)
(* ("fatal error: concurrent map writes", "concurrent map read and map     *)
(* write"), or the accesses may go through, which is what the other        *)
(* actions describe.  stage is "" when the access of v is an ordinary one, *)
(* and the stage that has just returned an error when the access of v is   *)
(* the one in handleError.                                                 *)
(***************************************************************************)
MapAccess(v, stage) ==
  \/ /\ stage = ""
     /\ \/ pc[v] \in {"process", "export"}
        \/ pc[v] = "idle" /\ Len(processingJobs) >= 2
  \/ /\ stage \in {"preprocess", "hash", "extract"}
     /\ pc[v] = "process"
  \/ /\ stage = "check"
     /\ pc[v] = "check"
  \/ /\ stage = "export"
     /\ pc[v] = "export"

ConcurrentMapAccess(w, v, stage) ==
  /\ w # v
  /\ pc[w] = "idle"
  /\ processingJobs # <<>>
  /\ MapAccess(v, stage)
  /\ stage = "" \/ faults > 0
  /\ faults' = IF stage = "" THEN faults ELSE faults - 1
  /\ runPc' = "crashed"
  /\ pc' = [x \in Workers |-> IF pc[x] = "off" THEN "off" ELSE "crashed"]
  /\ hist' = IF stage = "" THEN hist
             ELSE [hist EXCEPT !.failedAt[w_source[v]] = stage]
  /\ UNCHANGED <<SourcesForReprocessing, LocalPath, Manifest, Export,
                 ProcessingWorkerCount, jobs, processingSources,
                 cacheSaveCounter, mu, processingJobs, c, cacheFile, fs,
                 w_source, extraction, samples, exports, loaded, counterRead,
                 saving, Importers, importer, runResult, ctx, storage, db,
                 exporter, missing, exportDisk, cacheDir, quickSha256hash,
                 remote, artifacts, instanceMap, inUse, images>>

(***************************************************************************)
(* The environment of the run: the job storage may start to fail the calls *)
(* made to it, and may work again later.                                   *)
(***************************************************************************)
StorageFails ==
  /\ runPc = "workers"
  /\ storage = "up"
  /\ faults > 0
  /\ faults' = faults - 1
  /\ storage' = "down"
  /\ UNCHANGED <<runPc, SourcesForReprocessing, Export, ProcessingWorkerCount,
                 jobs, processingSources, cacheSaveCounter, mu,
                 processingJobs, c, cacheFile, fs, LocalPath, Manifest, pc,
                 w_source, extraction, samples, exports, loaded, counterRead,
                 saving, Importers, importer, runResult, ctx, hist, db,
                 exporter, missing, exportDisk, cacheDir, quickSha256hash,
                 remote, artifacts, instanceMap, inUse, images>>

StorageRecovers ==
  /\ storage = "down"
  /\ ctx # "cancelled"
  /\ storage' = "up"
  /\ UNCHANGED <<runPc, SourcesForReprocessing, Export, ProcessingWorkerCount,
                 jobs, processingSources, cacheSaveCounter, mu,
                 processingJobs, c, cacheFile, fs, LocalPath, Manifest,
                 faults, pc, w_source, extraction, samples, exports, loaded,
                 counterRead, saving, Importers, importer, runResult, ctx,
                 hist, db, exporter, missing, exportDisk, cacheDir,
                 quickSha256hash, remote, artifacts, instanceMap, inUse,
                 images>>

\* The caller cancels the context while the workers run.  The context is handed to the calls of
\* the job storage and of the exporter only; a storage that honours it
\* (cloudspanner) fails every call from now on.
Cancel ==
  /\ ctx = "live"
  /\ runPc = "workers"
  /\ ctx' = "cancelled"
  /\ storage' \in {storage, "down"}
  /\ UNCHANGED <<runPc, SourcesForReprocessing, Export, ProcessingWorkerCount,
                 jobs, processingSources, cacheSaveCounter, mu,
                 processingJobs, c, cacheFile, fs, LocalPath, Manifest,
                 faults, pc, w_source, extraction, samples, exports, loaded,
                 counterRead, saving, Importers, importer, runResult, hist,
                 db, exporter, missing, exportDisk, cacheDir, quickSha256hash,
                 remote, artifacts, instanceMap, inUse, images>>

(***************************************************************************)
(* The specification.                                                      *)
(***************************************************************************)
\* the steps of Run, of the feeder and of the workers
Program ==
  \/ NewSourcesError
  \/ NewSources
  \/ \E readOK, removeOK \in BOOLEAN : Load(readOK, removeOK)
  \/ \E w \in Workers :
       \/ Receive(w)
       \/ Exit(w)
       \/ \E madeDir \in BOOLEAN : ProcessPreprocessError(w, madeDir)
       \/ \E stage \in {"hash", "extract"} : ProcessError2(w, stage)
       \/ ProcessOK(w)
       \/ CheckReadError(w)
       \/ CheckRead(w)
       \/ CheckLoad(w)
       \/ CheckStore(w)
       \/ Lock(w)
       \/ \E ok \in BOOLEAN : PeriodicSaveCreate(w, ok)
       \/ PeriodicSaveWrite(w)
       \/ ExportFails(w)
       \/ ExportOK(w)
       \/ SaveSamplesFails(w)
       \/ CounterRead(w)
       \/ CounterWrite(w)
       \/ \E v \in Workers :
            \E stage \in {"", "preprocess", "hash", "extract", "check", "export"} :
              ConcurrentMapAccess(w, v, stage)
  \/ \E ok \in BOOLEAN : FinalSaveCreate(ok)
  \/ FinalSaveWrite
  \/ NextImporter
  \/ Return

\* the steps of the storage, of the caller of Run and of the repositories
Environment ==
  \/ StorageFails
  \/ StorageRecovers
  \/ Cancel
  \/ \E s \in Sources : ArtifactChanges(s)

Next == Program \/ Environment

Spec == Init /\ [][Next]_vars

SpecInputs == InitInputs /\ [][Next]_vars

SpecLarge == InitLarge /\ [][Next]_vars

\* The runs of Spec in which Run, the feeder and the workers are scheduled:
\* the Go scheduler runs every goroutine that can take a step, and every
\* call of the environment returns.
SpecLive == Init /\ [][Next]_vars /\ WF_vars(Program)

\* Runs in which the artifacts of some sources cannot be read at discovery.
UnreadableArtifacts ==
  {[s \in Sources |-> IF s \in S THEN Unreadable ELSE Content(s)] :
     S \in (SUBSET (1..NumSources)) \ {{}}}

InitHash ==
  \/ Init
  \/ InitWith([Plain EXCEPT !.remotes = UnreadableArtifacts,
                            !.importerLists = ImporterLists])

SpecHash == InitHash /\ [][Next]_vars

\* Runs over artifacts with equal contents: the second source of the
\* repository is a copy of the first, so that QuickSHA256Hash returns the
\* same value for both.
EqualArtifacts ==
  {[s \in Sources |-> IF s = 2 THEN Content(1) ELSE Content(s)]}

InitEqual ==
  \/ Init
  \/ InitWith([Plain EXCEPT !.remotes = EqualArtifacts,
                            !.workerCounts = 1..MaxWorkers,
                            !.budgets = {0}])

SpecEqual == InitEqual /\ [][Next]_vars

(***************************************************************************)
(* cache.Save and cache.Load on their own: the cache of a repository is    *)
(* saved, changed, saved for another repository, and loaded, in any order, *)
(* and every call succeeds.                                                *)
(***************************************************************************)
\* entries as an earlier version wrote them, with the paths of the file
PathEntry == [SourceId |-> "old", SourceHash |-> "", Path |-> <<"a", "", "b">>]

\* the caches that are saved
CacheContents ==
  {EmptyCache,
   [EmptyCache EXCEPT !["A"] = Entries(<<CacheEntry("src1", "sha1")>>)],
   [EmptyCache EXCEPT !["A"] = EntriesAt(0, <<>>)],
   [EmptyCache EXCEPT !["B"] = EntriesAt(Earlier, <<PathEntry>>)],
   [EmptyCache EXCEPT !["A"] = Entries(<<CacheEntry("src1", "sha1")>>),
                      !["B"] = EntriesAt(Earlier, <<PathEntry, CacheEntry("src2", "sha2")>>)],
   [EmptyCache EXCEPT !["A"] = EntriesAt(Earlier, <<CacheEntry("src2", "sha2"), PathEntry>>),
                      !["B"] = Entries(<<CacheEntry("src2", "sha2")>>)]}

InitCache == InitWith([Plain EXCEPT !.caches = CacheContents])

\* everything but the cache, the cache files and the repository at hand
others ==
  <<runPc, SourcesForReprocessing, Export, ProcessingWorkerCount, jobs,
    processingSources, cacheSaveCounter, mu, processingJobs, fs, LocalPath,
    Manifest, faults, pc, w_source, extraction, samples, exports, loaded,
    counterRead, saving, Importers, runResult, ctx, storage, db, exporter,
    missing, exportDisk, quickSha256hash, remote, artifacts, instanceMap,
    inUse, images>>

\* cacheMap.Store, as Check calls it: the cache in memory changes
CacheStore ==
  /\ c' \in CacheContents \ {c}
  /\ hist' = [hist EXCEPT !.op = "store"]
  /\ UNCHANGED <<others, cacheFile, cacheDir, importer, quickSha256hash,
                 remote, artifacts, instanceMap, inUse, images>>

\* cache.Save(repoName, cacheDir, cacheMap)
CacheSave ==
  \E data \in Marshal(c) :
    /\ cacheFile' = File(data, FALSE)
    /\ hist' = [hist EXCEPT !.content[importer] = c, !.op = "save"]
    /\ UNCHANGED <<others, c, cacheDir, importer, quickSha256hash, remote,
                   artifacts, instanceMap, inUse, images>>

\* cache.Load(repoName, cacheDir)
CacheLoad ==
  /\ c' = IF cacheFile.exists THEN Unmarshal(cacheFile.recs) ELSE EmptyCache
  /\ hist' = [hist EXCEPT !.op = "load"]
  /\ UNCHANGED <<others, cacheFile, cacheDir, importer, quickSha256hash,
                 remote, artifacts, instanceMap, inUse, images>>

\* the calls that follow are made with the name of another repository
CacheSwitch(i) ==
  /\ i # importer
  /\ importer' = i
  /\ cacheDir' = [cacheDir EXCEPT ![cachePath(RepoName(importer))] = cacheFile]
  /\ cacheFile' = cacheDir'[cachePath(RepoName(i))]
  /\ hist' = [hist EXCEPT !.op = "switch"]
  /\ UNCHANGED <<others, c, quickSha256hash, remote, artifacts, instanceMap,
                 inUse, images>>

NextCache ==
  \/ CacheStore
  \/ CacheSave
  \/ CacheLoad
  \/ \E i \in 1..NumImporters : CacheSwitch(i)

SpecCache == InitCache /\ [][NextCache]_vars

(***************************************************************************)
(* The AWS importer: image.Preprocess, getWorkerInstance and cleanup.  The *)
(* workers of the repository call Preprocess of their images concurrently; *)
(* instanceMap is a package variable, a plain Go map, that the calls read, *)
(* write and delete from without a lock.                                   *)
(***************************************************************************)
\* the variables of the engine, which the importer does not touch
engine ==
  <<runPc, SourcesForReprocessing, Export, ProcessingWorkerCount, jobs,
    processingSources, cacheSaveCounter, mu, processingJobs, c, cacheFile,
    fs, LocalPath, Manifest, faults, pc, w_source, extraction, samples,
    exports, loaded, counterRead, saving, Importers, importer, runResult,
    ctx, storage, db, exporter, missing, exportDisk, cacheDir,
    quickSha256hash, remote, artifacts, hist>>

\* the calls of Preprocess between getWorkerInstance and cleanup
PreprocessCalls == <<"setupsshClient", "region", "copy", "export", "download">>

\* the runs of the AWS importer: the worker instances may be tagged InUse
\* by an earlier run
InitAws == InitWith([Plain EXCEPT !.tags = [Instances -> BOOLEAN]])

\* Preprocess calls getWorkerInstance, and DescribeInstances returns the
\* running instances with their tags, or an error
DescribeInstances(i, ok) ==
  /\ images[i].pc = "new"
  /\ images' = [images EXCEPT ![i] =
                  IF ok THEN [@ EXCEPT !.pc = "scan", !.seen = inUse, !.index = 1]
                  ELSE [@ EXCEPT !.pc = "error"]]
  /\ UNCHANGED <<instanceMap, inUse, engine>>

\* one round of the loop over the instances: an instance that is in use, or
\* is in instanceMap, is passed over; after the last one the error "unable
\* to find available instance" is returned
Scan(i) ==
  /\ images[i].pc = "scan"
  /\ LET k == images[i].index
     IN images' = [images EXCEPT ![i] =
                     IF k > NumInstances THEN [@ EXCEPT !.pc = "error"]
                     ELSE IF images[i].seen[k] \/ instanceMap[k] # 0
                     THEN [@ EXCEPT !.index = k + 1]
                     ELSE [@ EXCEPT !.pc = "claim"]]
  /\ UNCHANGED <<instanceMap, inUse, engine>>

\* instanceMap[*instance.InstanceId] = *i.sourceImage.ImageId
Claim(i) ==
  /\ images[i].pc = "claim"
  /\ instanceMap' = [instanceMap EXCEPT ![images[i].index] = i]
  /\ images' = [images EXCEPT ![i].pc = "tag"]
  /\ UNCHANGED <<inUse, engine>>

\* setInstanceTag(InUse, true), whose error is only logged, and the return
\* of the instance to Preprocess
TagInUse(i, ok) ==
  /\ images[i].pc = "tag"
  /\ inUse' = IF ok THEN [inUse EXCEPT ![images[i].index] = TRUE] ELSE inUse
  /\ images' = [images EXCEPT ![i] =
                  [@ EXCEPT !.pc = "work", !.instance = images[i].index, !.call = 1]]
  /\ UNCHANGED <<instanceMap, engine>>

\* a call of Preprocess returns nil: the next call, and cleanup after the
\* last
CallOK(i) ==
  /\ images[i].pc = "work"
  /\ images' = [images EXCEPT ![i] =
                  IF images[i].call = Len(PreprocessCalls)
                  THEN [@ EXCEPT !.pc = "cleanup"]
                  ELSE [@ EXCEPT !.call = @ + 1]]
  /\ UNCHANGED <<instanceMap, inUse, engine>>

\* a call of Preprocess returns an error: Preprocess returns it
CallFails(i) ==
  /\ images[i].pc = "work"
  /\ images' = [images EXCEPT ![i].pc = "error"]
  /\ UNCHANGED <<instanceMap, inUse, engine>>

\* cleanup: setInstanceTag(InUse, false), whose error is only logged ...
TagFree(i, ok) ==
  /\ images[i].pc = "cleanup"
  /\ inUse' = IF ok THEN [inUse EXCEPT ![images[i].instance] = FALSE] ELSE inUse
  /\ images' = [images EXCEPT ![i].pc = "delete"]
  /\ UNCHANGED <<instanceMap, engine>>

\* ... and delete(instanceMap, *i.instance.InstanceId)
Delete(i) ==
  /\ images[i].pc = "delete"
  /\ instanceMap' = [instanceMap EXCEPT ![images[i].instance] = 0]
  /\ images' = [images EXCEPT ![i].pc = "extract"]
  /\ UNCHANGED <<inUse, engine>>

\* common.ExtractTarGz, and the return of Preprocess
ExtractTarGz(i, ok) ==
  /\ images[i].pc = "extract"
  /\ images' = [images EXCEPT ![i].pc = IF ok THEN "returned" ELSE "error"]
  /\ UNCHANGED <<instanceMap, inUse, engine>>

\* the accesses of instanceMap: the read in the loop, the write and the
\* delete
ReadsMap(i) ==
  /\ images[i].pc = "scan"
  /\ images[i].index <= NumInstances
  /\ ~images[i].seen[images[i].index]

WritesMap(i) == images[i].pc \in {"claim", "delete"}

\* A data race on instanceMap: one call writes the map while another reads
\* or writes it.  Besides the outcomes above, the runtime may end the
\* process (fatal error: concurrent map writes).
ConcurrentInstanceMap(i, j) ==
  /\ i # j
  /\ WritesMap(i)
  /\ ReadsMap(j) \/ WritesMap(j)
  /\ images' = [x \in AwsImages |-> [images[x] EXCEPT !.pc = "crashed"]]
  /\ UNCHANGED <<instanceMap, inUse, engine>>

NextAws ==
  \E i \in AwsImages :
    \/ \E ok \in BOOLEAN : DescribeInstances(i, ok)
    \/ Scan(i)
    \/ Claim(i)
    \/ \E ok \in BOOLEAN : TagInUse(i, ok)
    \/ CallOK(i)
    \/ CallFails(i)
    \/ \E ok \in BOOLEAN : TagFree(i, ok)
    \/ Delete(i)
    \/ \E ok \in BOOLEAN : ExtractTarGz(i, ok)
    \/ \E j \in AwsImages : ConcurrentInstanceMap(i, j)

SpecAws == InitAws /\ [][NextAws]_vars

(***************************************************************************)
(* Properties.                                                             *)
(***************************************************************************)
\* the run of the repository is over and the repository was not skipped
Completed == runPc = "done" /\ hist.skipped = ""

\* every source dispatched for the repository Run is at has been handled
AllHandled ==
  hist.dispatched \cap SourcesOf(importer) = hist.finished \cap SourcesOf(importer)

\* C1: at most one upload per digest.  For every digest in the manifest of
\* a source that went through the cache check, the number of samples the
\* check returned with Upload set, over all sources and workers, is never
\* more than one, is zero if the digest was in the cache at the start of the
\* run, and is exactly one at the end of the run otherwise.
C1_OneUploadPerDigest ==
  \A d \in hist.observed :
    /\ d \in hist.startKeys => hist.uploads[d] = 0
    /\ d \notin hist.startKeys => hist.uploads[d] <= 1
    /\ Completed /\ d \notin hist.startKeys => hist.uploads[d] = 1

\* C2: the critical section.  A worker that is between the start of the
\* cache check of a source and the end of the clean-up of that source holds
\* the mutex, so no two workers are in that region together.
InRegion(w) ==
  pc[w] \in {"check_load", "check_store", "lock", "save", "save_write", "export"}

C2_CriticalSection ==
  /\ \A w \in Workers : InRegion(w) => mu = w
  /\ \A v, w \in Workers : InRegion(v) /\ InRegion(w) => v = w

\* C3: the dispatch rule.  A source is dispatched if and only if its quick
\* hash is absent from the job storage, or is on the reprocess list, or its
\* stored status is reprocess; a source that is not dispatched is never
\* received by a worker and its job record is not written.
\* Stated with exact string comparison, as the claim has it:
Untouched(s) ==
  /\ jobs[QuickSHA256Hash(s)] = hist.stored[QuickSHA256Hash(s)]
  /\ processingSources[QuickSHA256Hash(s)] = NoJob
  /\ hist.stages[s] = <<>>
  /\ \A w \in Workers : w_source[w] # s

OnList(q) ==
  \E i \in 1..Len(SourcesForReprocessing) : SourcesForReprocessing[i] = q

C3_DispatchExact ==
  \A s \in hist.listed :
    LET q == QuickSHA256Hash(s)
    IN /\ s \in hist.dispatched <=>
            \/ hist.stored[q] = NoJob
            \/ OnList(q)
            \/ hist.stored[q].Status = reprocess
       /\ s \notin hist.dispatched => Untouched(s)

\* C3 as amended: the list and the status reprocess are matched without
\* regard to case (strings.EqualFold).
OnListFold(q) ==
  \E i \in 1..Len(SourcesForReprocessing) :
    ToLower(SourcesForReprocessing[i]) = ToLower(q)

C3_DispatchFold ==
  \A s \in hist.listed :
    LET q == QuickSHA256Hash(s)
    IN /\ s \in hist.dispatched <=>
            \/ hist.stored[q] = NoJob
            \/ OnListFold(q)
            \/ ToLower(hist.stored[q].Status) = "reprocess"
       /\ s \notin hist.dispatched => Untouched(s)

\* a run is over in which the first source, stored as exported and not on
\* the list, was skipped while the second was processed
C3_Witness ==
  /\ Completed
  /\ hist.stored[QuickSHA256Hash(1)].Status = exported
  /\ ~OnListFold(QuickSHA256Hash(1))
  /\ 1 \notin hist.dispatched
  /\ 2 \in hist.finished

\* C4: status monotonicity.  The status of a stored job record changes only
\* along discovered -> preprocessed -> processed -> cached -> exported, one
\* step at a time, or to failed from a state that is not terminal.
Forward ==
  {<<NoJob.Status, discovered>>, <<discovered, preprocessed>>,
   <<preprocessed, processed>>, <<processed, cached>>, <<cached, exported>>}
  \cup {<<st, failed>> : st \in {discovered, preprocessed, processed, cached}}

C4_StatusMonotone ==
  [][\A q \in QuickHashes :
       jobs'[q].Status # jobs[q].Status =>
         <<jobs[q].Status, jobs'[q].Status>> \in Forward]_vars

\* C5: failure isolation.  A source one of whose stages returned an error
\* has status failed and the error of that stage in its record, in memory and
\* (when the job storage takes the update) in the job storage; no stage after the failed one was run for it and the
\* cache holds no entry of it unless the check was passed; the worker has
\* let go of the source and of the mutex, and when the run is over every
\* dispatched source has been handled.
StagesUpTo(stage) ==
  CASE stage = "preprocess" -> <<"preprocess", "cleanup">>
    [] stage = "hash" -> <<"preprocess", "hash", "cleanup">>
    [] stage = "extract" -> <<"preprocess", "hash", "extract", "cleanup">>
    [] stage = "check" -> <<"preprocess", "hash", "extract", "check", "cleanup">>
    [] stage = "export" ->
         <<"preprocess", "hash", "extract", "check", "export", "cleanup">>

ErrorOf(stage) ==
  CASE stage \in {"preprocess", "hash", "extract"} -> ProcessError(stage)
    [] stage = "check" -> CheckError
    [] stage = "export" -> ExportError

InCache(s) ==
  \E d \in Digests : \E i \in 1..Len(c[d].Entries) : c[d].Entries[i].SourceId = ID(s)

C5_FailureIsolation ==
  /\ \A s \in Sources :
       hist.failedAt[s] # "" =>
         LET p == processingSources[QuickSHA256Hash(s)]
         IN /\ p.Status = failed
            /\ p.Error # ""
            /\ p.Error = ErrorOf(hist.failedAt[s])
            /\ storage = "sound" => jobs[QuickSHA256Hash(s)] = p
            /\ hist.stages[s] = StagesUpTo(hist.failedAt[s])
            /\ hist.failedAt[s] # "export" => ~InCache(s)
            /\ \A w \in Workers : w_source[w] # s
  /\ mu # 0 => pc[mu] \in {"save", "save_write", "export"}
  /\ Completed => AllHandled

\* the run is over, one source failed and a later one was exported
C5_Witness ==
  /\ Completed
  /\ \E s, r \in Sources :
       /\ s < r
       /\ hist.failedAt[s] # ""
       /\ jobs[QuickSHA256Hash(r)].Status = exported

\* C6: clean-up.  Once a source has been handled and its status is exported
\* or failed, the directory made for it is gone, unless that directory is
\* not under the prefix the guard accepts.
C6_CleanedUp ==
  \A s \in hist.finished :
    jobs[QuickSHA256Hash(s)].Status \in {exported, failed} =>
      \/ hist.created[s] = <<>>
      \/ hist.created[s] \notin fs
      \/ ~HasPrefix(hist.created[s], TmpPrefix)

\* C7: the guard of the clean-up.  No directory other than the temporary
\* directories of the sources is ever deleted: the export directory and the
\* directories outside the engine stay on the disk.
C7_CleanupGuarded == {ExportPath, DataDir} \subseteq fs

\* C8: the result of the cache check.  When the check of a manifest ends it
\* has returned one sample per manifest entry, in order, with the digest and
\* the joined paths of the entry; every digest of the manifest is a key of
\* the cache and has as many more entries than before the check as the
\* manifest has entries with it; every other digest is as before the check.
Count(manifest, d) ==
  Cardinality({i \in 1..Len(manifest) : manifest[i].Sha256 = d})

CheckPost(manifest, path, before, after, result) ==
  /\ Len(result) = Len(manifest)
  /\ \A i \in 1..Len(manifest) :
       /\ result[i].Sha256 = manifest[i].Sha256
       /\ result[i].Paths =
            [j \in 1..Len(manifest[i].Paths) |-> path \o manifest[i].Paths[j]]
  /\ \A d \in Digests :
       IF Count(manifest, d) > 0
       THEN /\ after[d].present
            /\ Len(after[d].Entries) = Len(before[d].Entries) + Count(manifest, d)
       ELSE after[d] = before[d]

C8_CheckResult ==
  [][\A w \in Workers :
       pc[w] = "check_store" /\ pc'[w] = "lock" =>
         CheckPost(Manifest[w_source[w]], extraction[w].Path,
                   hist.checkStart[w], c', exports'[w])]_vars

\* C9: the load of the cache never fails the repository.  Load returns the
\* stored cache when the file is intact, an empty cache when the file is
\* absent, and on a read or parse error it deletes the file and returns an
\* empty cache; the repository is not skipped in any of these cases, and
\* after a run that started from a corrupted file the saved cache holds
\* exactly the digests observed in the run.
FileKeys(file) == {file.recs[i].key : i \in 1..Len(file.recs)}

FileEntries(file, d) ==
  IF d \in FileKeys(file)
  THEN DecodeEntries(
         (CHOOSE r \in {file.recs[i] : i \in 1..Len(file.recs)} : r.key = d).entries)
  ELSE NoEntries

LoadOutcomes ==
  /\ hist.load = "absent" =>
       /\ ~hist.loadedFrom.exists
       /\ hist.startKeys = {}
  /\ hist.load = "loaded" =>
       /\ hist.loadedFrom.exists
       /\ ~hist.loadedFrom.torn
       /\ hist.startKeys = FileKeys(hist.loadedFrom)
       /\ hist.observed = {} /\ runPc = "workers" =>
            \A d \in Digests : c[d] = FileEntries(hist.loadedFrom, d)
  /\ hist.load = "discarded" =>
       /\ hist.loadedFrom.exists
       /\ hist.startKeys = {}
       /\ hist.saves = 0 => ~cacheFile.exists
       /\ hist.observed = {} /\ runPc = "workers" => c = EmptyCache
  /\ hist.load = "discarded" /\ hist.finalSave = "ok" =>
       /\ ~cacheFile.torn
       /\ FileKeys(cacheFile) = hist.observed

C10_AtomicSave ==
  hist.saves > 0 => cacheFile \in {hist.fileBefore, File(hist.saveData, FALSE)}

\* C11: the periodic snapshot is coherent.  A worker that runs a periodic
\* cache save holds the mutex, and while it does no other worker is inside
\* a cache check: none is between the first look-up of a manifest and the
\* last append or insert for it.
InCheck(w) == pc[w] \in {"check_load", "check_store"}

C11_CoherentSnapshot ==
  \A w \in Workers :
    pc[w] \in {"save", "save_write"} =>
      /\ mu = w
      /\ \A v \in Workers : v # w => ~InCheck(v)

\* C12: the cadence of the cache saves.  Until the first periodic save of a
\* repository the save counter equals the number of sources of that
\* repository that have been handled, exported or failed, whenever no worker
\* is in the middle of counting; and a repository whose workers have all
\* finished has had its final save.
Counting(w) == pc[w] \in {"count", "count_write"}

C12_SaveCadence ==
  /\ runPc = "workers" /\ hist.saves = 0 /\ (\A w \in Workers : ~Counting(w)) =>
       cacheSaveCounter = Cardinality(hist.finished \cap SourcesOf(importer))
  /\ runPc = "done" /\ importer \in hist.started => importer \in hist.saved

\* C13: bounded parallelism.  At most ProcessingWorkerCount sources are in
\* the hands of workers at any moment, each in the hands of one worker, and
\* all of them belong to the repository Run is at; while Run discovers a
\* repository or loads its cache no worker is running, and every repository
\* before it whose workers were started has had its final save attempted.
InFlight == {w \in Workers : w_source[w] # 0}

Running(w) == pc[w] \notin {"off", "exit"}

C13_BoundedParallelism ==
  /\ Cardinality(InFlight) <= ProcessingWorkerCount
  /\ \A w \in Workers : w > ProcessingWorkerCount => pc[w] = "off"
  /\ \A v, w \in InFlight : w_source[v] = w_source[w] => v = w
  /\ \A w \in InFlight : w_source[w] \in SourcesOf(importer)
  /\ runPc \in {"discover", "load"} =>
       /\ \A w \in Workers : ~Running(w)
       /\ \A i \in hist.started : i < importer => i \in hist.saved

\* a worker handles a source of the second repository after the workers of
\* the first one have handled a source and its cache was saved
C13_Witness ==
  /\ importer = 2
  /\ InFlight # {}
  /\ 1 \in hist.saved
  /\ hist.finished \cap SourcesOf(1) # {}

\* C14: the exit behaviour.  Run returns only after the loop has gone through
\* every importer, and what it returns is nil (success), whatever sources
\* have failed and whichever repositories were skipped or not saved.
C14_ReturnsSuccess ==
  /\ runResult \in {"", "nil"}
  /\ runPc = "returned" <=> runResult = "nil"
  /\ runPc = "returned" => importer = NumImporters

\* Run has returned after the discovery of one repository failed and a
\* source of another one failed
C14_Witness ==
  /\ runPc = "returned"
  /\ hist.failedImporters # {}
  /\ \E s \in Sources : hist.failedAt[s] # ""

\* Run has returned after a cache load or a final cache save failed
C14_WitnessCache ==
  /\ runPc = "returned"
  /\ \/ hist.finalSave = "error"
     \/ hist.skipped = "Load"

\* C15: a repository whose discovery fails is isolated.  No source of an
\* importer whose DiscoverRepo or FetchJobs call failed is dispatched,
\* received by a worker or written to the job storage; the failure changes
\* nothing that the later importers read (job storage, records in memory,
\* save counter, disk); and when Run returns every other importer has been
\* discovered and every source dispatched for it has been handled.
SkippedUntouched ==
  \A i \in hist.failedImporters :
    \A s \in SourcesOf(i) : s \notin hist.dispatched /\ Untouched(s)

OthersProcessed ==
  runPc = "returned" =>
    \A i \in 1..NumImporters :
      i \notin hist.failedImporters =>
        /\ SourcesOf(i) \subseteq hist.listed
        /\ i \in hist.started =>
             hist.dispatched \cap SourcesOf(i) \subseteq hist.finished

FailureLeavesNoTrace ==
  hist'.failedImporters # hist.failedImporters =>
    /\ runPc' = "done"
    /\ UNCHANGED <<jobs, processingSources, cacheSaveCounter, mu, fs,
                   cacheFile, SourcesForReprocessing, Importers, importer,
                   runResult, pc, w_source, db, exporter, missing, exportDisk,
                   cacheDir, quickSha256hash, remote, artifacts, instanceMap,
                   inUse, images>>

C15_RepositoryIsolation ==
  /\ [](SkippedUntouched /\ OthersProcessed)
  /\ [][FailureLeavesNoTrace]_vars

\* Run has returned; the discovery of the first repository failed and a
\* source of the second one was handled
C15_Witness ==
  /\ runPc = "returned"
  /\ 1 \in hist.failedImporters
  /\ SourcesOf(1) # {}
  /\ hist.finished \cap SourcesOf(2) # {}

\* C16: the writes to the job storage are best-effort.  Whether or not the
\* updates of a source reach the storage, a source that has been handled
\* went through the stages its own stage results determine and has the
\* status they determine in memory, exported or failed; the worker that
\* handled it is free again, and when the run of a repository is over every
\* dispatched source has been handled.
AllStages ==
  <<"preprocess", "hash", "extract", "check", "export", "cleanup">>

C16_BestEffortUpdates ==
  /\ \A s \in hist.finished :
       LET p == processingSources[QuickSHA256Hash(s)]
       IN /\ hist.failedAt[s] = "" =>
               p.Status = exported /\ hist.stages[s] = AllStages
          /\ hist.failedAt[s] # "" =>
               /\ p.Status = failed
               /\ p.Error = ErrorOf(hist.failedAt[s])
               /\ hist.stages[s] = StagesUpTo(hist.failedAt[s])
          /\ \A w \in Workers : w_source[w] # s
  /\ Completed => AllHandled

\* the run of a repository is over: no update of the first source reached
\* the storage, the source is exported in memory, and the second source
\* was handled after it
C16_Witness ==
  /\ Completed
  /\ jobs[QuickSHA256Hash(1)] = NoJob
  /\ processingSources[QuickSHA256Hash(1)].Status = exported
  /\ {1, 2} \subseteq hist.finished
  /\ jobs[QuickSHA256Hash(2)].Status \in {exported, failed}

\* C17: cancellation.  Once the context is cancelled no worker takes a
\* further source from the queue, and no worker starts the next stage (the
\* cache check, the export) of the source it has in flight.
StartsWork(w) ==
  \/ pc[w] = "idle" /\ pc'[w] = "process"
  \/ pc[w] = "process" /\ pc'[w] = "check"
  \/ pc[w] # "export" /\ pc'[w] = "export"

C17_Cancellation ==
  [][ctx = "cancelled" => \A w \in Workers : ~StartsWork(w)]_vars

\* C18: the order of the stages of a source.  The stages run for a source
\* are, in this order and each at most once, preprocess, hash, extract,
\* check and export, with the clean-up last; a source that was not
\* dispatched has no stage run; and for a source whose preprocess, hash or
\* extract failed neither the cache check nor the export is run and the
\* cache holds no entry of it.
IsPrefix(a, b) == Len(a) <= Len(b) /\ SubSeq(b, 1, Len(a)) = a

WorkStages == <<"preprocess", "hash", "extract", "check", "export">>

InOrder(seq) ==
  \/ IsPrefix(seq, WorkStages)
  \/ /\ Len(seq) >= 2
     /\ seq[Len(seq)] = "cleanup"
     /\ IsPrefix(SubSeq(seq, 1, Len(seq) - 1), WorkStages)

Ran(s, stage) == \E i \in 1..Len(hist.stages[s]) : hist.stages[s][i] = stage

C18_StageOrder ==
  \A s \in Sources :
    /\ InOrder(hist.stages[s])
    /\ s \notin hist.dispatched => hist.stages[s] = <<>>
    /\ hist.failedAt[s] \in {"preprocess", "hash", "extract"} =>
         /\ ~Ran(s, "check")
         /\ ~Ran(s, "export")
         /\ ~InCache(s)
    /\ hist.failedAt[s] = "check" => ~Ran(s, "export")

\* one source has failed in extract and was cleaned up, another one went
\* through every stage
C18_Witness ==
  \E s, r \in Sources :
    /\ hist.failedAt[s] = "extract"
    /\ s \in hist.finished
    /\ hist.stages[r] = AllStages

\* C19: the export of a source is all or nothing.  A source whose record
\* says exported, after an export by the exporter, has its row in the
\* exporter's database, and every sample of its manifest has its row and
\* its relationship with the source there.
Persisted(s) ==
  /\ SourceSHA256(s) \in db.sources
  /\ \A i \in 1..Len(Manifest[s]) :
       /\ Manifest[s][i].Sha256 \in db.samples
       /\ <<Manifest[s][i].Sha256, SourceSHA256(s)>> \in db.samples_sources

C19_ExportAllOrNothing ==
  \A s \in Sources :
    Export /\ processingSources[QuickSHA256Hash(s)].Status = exported =>
      Persisted(s)

\* C20: saving to the disk.  In a run without an exporter, a source that
\* reached the export stage is failed, with the record, the error text and
\* the clean-up of a failed export, when a sample to upload has no path
\* that exists or the directory of its digest exists already; when no write
\* fails otherwise, it is failed only then.  A source that was saved has,
\* for every sample to upload, the first of its paths that exists copied to
\* <export path>/<repo>___<source id>___<source sha256>/<digest>/<base name>,
\* no other file in its directory, and a samples.json in its directory that
\* lists every sample of the list, in order, with its upload flag.
ImporterOf(s) == CHOOSE i \in 1..NumImporters : s \in SourcesOf(i)

SavedTo(s) ==
  <<"/tmp/", "hashr", "-uploads", "/",
    RepoName(ImporterOf(s)) \o "___" \o ID(s) \o "___" \o SourceSHA256(s), "/">>

FirstOnDisk(paths) ==
  LET found == {i \in 1..Len(paths) : Stat(paths[i])}
  IN IF found = {} THEN <<>>
     ELSE paths[CHOOSE i \in found : \A j \in found : i <= j]

CopyOf(s, sample) ==
  LET from == FirstOnDisk(sample.Paths)
  IN [path |-> SavedTo(s) \o <<sample.Sha256, "/", from[Len(from)]>>, from |-> from]

SaveError(s) ==
  LET list == hist.samplesOf[s]
  IN \E k \in 1..Len(list) :
       /\ list[k].Upload
       /\ \/ FirstOnDisk(list[k].Paths) = <<>>
          \/ SavedTo(s) \o <<list[k].Sha256, "/">> \in hist.disk0
          \/ \E j \in 1..(k - 1) : list[j].Upload /\ list[j].Sha256 = list[k].Sha256

SavedToDisk(s) ==
  LET list == hist.samplesOf[s]
  IN /\ \A k \in 1..Len(list) :
          list[k].Upload => CopyOf(s, list[k]) \in exportDisk.files
     /\ \A f \in exportDisk.files :
          HasPrefix(f.path, SavedTo(s)) =>
            \E k \in 1..Len(list) : list[k].Upload /\ f = CopyOf(s, list[k])
     /\ \E j \in exportDisk.json :
          /\ j.dir = SavedTo(s)
          /\ Len(j.samples) = Len(list)
          /\ \A k \in 1..Len(list) :
               /\ j.samples[k].Sha256 = list[k].Sha256
               /\ j.samples[k].Upload = list[k].Upload

FailedAsExport(s) ==
  LET p == processingSources[QuickSHA256Hash(s)]
  IN /\ p.Status = failed
     /\ p.Error = ErrorOf("export")
     /\ hist.stages[s] = StagesUpTo("export")
     /\ hist.created[s] = <<>> \/ hist.created[s] \notin fs
     /\ \A w \in Workers : w_source[w] # s

C20_SaveToDisk ==
  ~Export =>
    \A s \in hist.finished :
      Ran(s, "export") =>
        /\ SaveError(s) => hist.failedAt[s] = "export"
        /\ hist.failedAt[s] = "export" => FailedAsExport(s)
        /\ hist.failedAt[s] = "export" /\ faults = MaxFaults => SaveError(s)
        /\ hist.failedAt[s] = "" =>
             /\ processingSources[QuickSHA256Hash(s)].Status = exported
             /\ SavedToDisk(s)

\* two sources were saved: one with a sample whose first path is not on the
\* disk and whose second path was copied, one with no sample to upload
C20_Witness ==
  /\ ~Export
  /\ \E s, r \in hist.finished :
       /\ hist.failedAt[s] = "" /\ hist.failedAt[r] = ""
       /\ \E k \in 1..Len(hist.samplesOf[s]) :
            LET sample == hist.samplesOf[s][k]
            IN /\ sample.Upload
               /\ Len(sample.Paths) = 2
               /\ ~Stat(sample.Paths[1])
               /\ [path |-> SavedTo(s) \o <<sample.Sha256, "/", "f2">>,
                   from |-> sample.Paths[2]] \in exportDisk.files
       /\ hist.samplesOf[r] # <<>>
       /\ \A k \in 1..Len(hist.samplesOf[r]) : ~hist.samplesOf[r][k].Upload
       /\ \E j \in exportDisk.json : j.dir = SavedTo(r) /\ Len(j.samples) = 2

\* a source was failed by saveSamples: no path of a sample is on the disk,
\* or an earlier run has left the directory of a sample
C20_WitnessError ==
  /\ ~Export
  /\ faults = MaxFaults
  /\ \E s \in hist.finished : hist.failedAt[s] = "export" /\ SaveError(s)

\* C21: the round trip of the cache.  A cache loaded for a repository is
\* the cache that was last saved for this repository, whatever was saved
\* for other repositories and whatever the cache in memory became since:
\* the same digests, each with the same LastUpdated and the same entries
\* (source id, source hash, paths) in the same order; it is empty when
\* nothing was saved for the repository.
C21_RoundTrip ==
  hist.op = "load" => c = hist.content[importer]

\* a cache with two digests, several entries and paths was loaded for a
\* repository after another cache was saved for another repository
C21_Witness ==
  /\ hist.op = "load"
  /\ c = hist.content[importer]
  /\ Keys(c) = Digests
  /\ \E i \in 1..Len(c["B"].Entries) : Len(c["B"].Entries[i].Path) = 3
  /\ c["A"].LastUpdated # c["B"].LastUpdated
  /\ \E i \in 1..NumImporters :
       /\ i # importer
       /\ hist.content[i] \notin {c, EmptyCache}
       /\ cacheDir[cachePath(RepoName(i))].exists

\* C22: the quick hash is idempotent.  Once a call for a source has
\* succeeded, every later call for it succeeds and returns the same value,
\* whatever became of the artifact; a source that a worker has taken was
\* hashed at discovery, and the job record made for it is under the hash
\* discovery got and under no other key.
RecordKeys(s) == {q \in QuickHashes : processingSources[q].ID = ID(s)}

C22_QuickHashIdempotent ==
  /\ \A s \in Sources :
       hist.firstHash[s] # "" =>
         /\ ~QuickHashError(s)
         /\ QuickSHA256Hash(s) = hist.firstHash[s]
         /\ RecordKeys(s) \subseteq {hist.firstHash[s]}
  /\ \A w \in Workers :
       w_source[w] # 0 => RecordKeys(w_source[w]) = {hist.firstHash[w_source[w]]}

\* the artifact of a source changed after discovery, the source was taken
\* by a worker and exported under the hash of discovery
C22_Witness ==
  \E s \in hist.finished :
    /\ remote[s] # hist.firstHash[s]
    /\ hist.firstHash[s] = Content(s)
    /\ hist.stages[s] = AllStages
    /\ processingSources[Content(s)].Status = exported
    /\ processingSources[Content(s)].ID = ID(s)

\* C23: a quick hash error skips the source and nothing else.  A listed
\* source whose quick hash fails is not dispatched, no worker takes it, no
\* stage is run for it and no job record is made for it in memory or in
\* the storage; the other sources its importer lists are dispatched, and
\* when the run of the repository is over they have all been handled.
HashFailed(s) == s \in hist.listed /\ QuickHashError(s)

C23_QuickHashErrorSkips ==
  /\ \A s \in Sources :
       HashFailed(s) =>
         /\ s \notin hist.dispatched
         /\ \A w \in Workers : w_source[w] # s
         /\ hist.stages[s] = <<>>
         /\ hist.failedAt[s] = ""
         /\ \A q \in QuickHashes :
              processingSources[q].ID # ID(s) /\ jobs[q].ID # ID(s)
  /\ \A w \in Workers : w_source[w] # 0 => ~QuickHashError(w_source[w])
  /\ (\E s \in Sources : HashFailed(s)) /\ runPc \notin {"discover", "crashed"}
       /\ hist.skipped = "" =>
         \A r \in SourcesOf(importer) :
           ~HashFailed(r) =>
             /\ r \in hist.dispatched
             /\ runPc = "done" => r \in hist.finished

\* the quick hash of one source of a repository failed, the other source
\* of the repository was exported, and the run of the repository is over
C23_Witness ==
  /\ Completed
  /\ \E s, r \in SourcesOf(importer) :
       /\ HashFailed(s)
       /\ s < r
       /\ hist.stages[r] = AllStages
       /\ processingSources[Content(r)].Status = exported

\* C24: the counts of a job record.  The record of a source that was
\* handled in this run, when its status is exported, has the number of the
\* samples the cache check returned for the source as its sample count, the
\* number of those with Upload set as its export count, and no error text,
\* with an exporter and without; when its status is failed it has an error
\* text.
Uploads(list) == Cardinality({k \in 1..Len(list) : list[k].Upload})

RecordCounts(s) ==
  LET p == processingSources[QuickSHA256Hash(s)]
  IN /\ p.Status = exported =>
          /\ p.SampleCount = Len(hist.samplesOf[s])
          /\ p.ExportCount = Uploads(hist.samplesOf[s])
          /\ p.Error = ""
     /\ p.Status = failed => p.Error # ""

C24_RecordCounts == \A s \in hist.finished : RecordCounts(s)

\* the same for the runs with an exporter only
C24_ExporterCounts == Export => C24_RecordCounts

\* C25: progress.  When Run, the feeder and the workers are scheduled and
\* every call returns, Run returns; and when it has returned, the queue is
\* empty, every worker has exited, every source that was dispatched to the
\* workers of its repository went through its stages once and has been
\* handled, and its record is exported or failed.
Times(seq, x) == Cardinality({i \in 1..Len(seq) : seq[i] = x})

Settled(s) ==
  /\ s \in hist.finished
  /\ Times(hist.stages[s], "preprocess") = 1
  /\ Times(hist.stages[s], "cleanup") = 1
  /\ processingSources[QuickSHA256Hash(s)].Status \in {exported, failed}

AllSettled ==
  /\ importer \in hist.started => processingJobs = <<>>
  /\ \A w \in Workers : pc[w] \in {"off", "exit"} /\ w_source[w] = 0
  /\ \A s \in hist.dispatched : ImporterOf(s) \in hist.started => Settled(s)

C25_Progress ==
  /\ <>(runPc = "returned")
  /\ [](runPc = "returned" => AllSettled)

\* the same for the runs of one worker only
C25_OneWorker ==
  /\ <>(runPc = "returned" \/ ProcessingWorkerCount > 1)
  /\ [](runPc = "returned" => AllSettled)

\* C26: no upload is lost.  When the run of a repository is over, every
\* digest that is in the cache of the repository and was not in it when the
\* run started is in a sample with Upload set that was handed to a call of
\* Export, or of saveSamples, that returned nil.
Delivered(d) ==
  \E s \in hist.finished :
    /\ hist.failedAt[s] = ""
    /\ \E k \in 1..Len(hist.samplesOf[s]) :
         hist.samplesOf[s][k].Sha256 = d /\ hist.samplesOf[s][k].Upload

C26_NoUploadLost ==
  Completed => \A d \in Keys(c) \ hist.startKeys : Delivered(d)

\* the same for the runs in which no export returns an error
C26_NoExportError ==
  Completed /\ (\A s \in Sources : hist.failedAt[s] # "export") =>
    \A d \in Keys(c) \ hist.startKeys : Delivered(d)

\* C27: the job table is free of races.  No worker is about to insert its
\* record into h.processingSources while another worker reads the map or
\* updates a record of it, and the run is never ended by the runtime for a
\* concurrent access to the map.
Inserting(w) == pc[w] = "idle" /\ processingJobs # <<>>

Accessing(v) ==
  \E stage \in {"", "preprocess", "hash", "extract", "check", "export"} :
    MapAccess(v, stage)

C27_RaceFree ==
  /\ runPc # "crashed"
  /\ \A w, v \in Workers : w # v => ~(Inserting(w) /\ Accessing(v))

\* the same for the runs of one worker only
C27_OneWorker == ProcessingWorkerCount = 1 => C27_RaceFree

\* C28: one owner per quick hash.  No two sources with the same quick hash
\* are dispatched in a run, no two workers hold sources with the same quick
\* hash, and the job record under the quick hash of a source that a worker
\* holds, or that has been handled, is the record of that source.
SameHash(s, r) == s # r /\ QuickSHA256Hash(s) = QuickSHA256Hash(r)

C28_OneOwner ==
  /\ \A s, r \in hist.dispatched : ~SameHash(s, r)
  /\ \A v, w \in Workers :
       w_source[v] # 0 /\ w_source[w] # 0 => ~SameHash(w_source[v], w_source[w])
  /\ \A w \in Workers :
       w_source[w] # 0 =>
         processingSources[QuickSHA256Hash(w_source[w])].ID = ID(w_source[w])
  /\ \A s \in hist.finished :
       processingSources[QuickSHA256Hash(s)].ID = ID(s)

\* the same for the runs in which the quick hashes of the listed sources
\* are distinct
C28_DistinctHashes ==
  (\A s, r \in Sources : remote[s] # Unreadable => ~SameHash(s, r)) => C28_OneOwner

\* C29: the lock discipline.  While the process runs, the mutex is held by
\* exactly the worker that is between h.mu.Lock() and its h.mu.Unlock(), so
\* by no worker that is taking a source from the queue or has exited; the
\* mutex changes hands only by a waiting worker locking the free mutex and
\* by its holder unlocking it once, on the way out of the export; and
\* neither the holder nor a worker waiting for the free mutex is stuck.
Holds(w) == pc[w] \in {"save", "save_write", "export"}

HolderStep(w) ==
  \/ \E ok \in BOOLEAN : PeriodicSaveCreate(w, ok)
  \/ PeriodicSaveWrite(w)
  \/ ExportOK(w)
  \/ ExportFails(w)
  \/ SaveSamplesFails(w)

LockState ==
  /\ mu \in Workers \cup {0}
  /\ \A w \in Workers : Holds(w) <=> mu = w
  /\ \A w \in Workers : Holds(w) => ENABLED HolderStep(w)
  /\ \A w \in Workers : pc[w] = "lock" /\ mu = 0 => ENABLED Lock(w)

LockStep ==
  /\ mu' # mu =>
       \/ mu = 0 /\ pc[mu'] = "lock" /\ pc'[mu'] \in {"save", "export"}
       \/ mu # 0 /\ mu' = 0 /\ pc[mu] = "export" /\ pc'[mu] \in {"idle", "count"}
  /\ \A w \in Workers : Holds(w) /\ ~Holds(w)' => mu = w /\ mu' = 0

C29_LockDiscipline ==
  /\ [](runPc # "crashed" => LockState)
  /\ [][runPc' # "crashed" => LockStep]_vars

\* two workers are at the critical section: one holds the mutex and exports
\* its source, the other has checked its source and waits for the mutex
C29_Witness ==
  \E v, w \in Workers :
    /\ v # w
    /\ pc[v] = "lock"
    /\ pc[w] = "export"
    /\ mu = w
    /\ hist.stages[w_source[v]] = <<"preprocess", "hash", "extract", "check">>

\* C30: the EC2 worker instances of the AWS importer.  An instance is
\* assigned to at most one image at a time: no two images that are between
\* getWorkerInstance and the end of cleanup have the same instance.
\* And an instance acquired by Preprocess is released on every way out:
\* when Preprocess of an image has returned, with or without an error, no
\* entry of instanceMap names the image.
Assigned(i) ==
  IF images[i].pc = "tag" THEN images[i].index
  ELSE IF images[i].pc \in {"work", "cleanup", "delete"} THEN images[i].instance
  ELSE 0

C30_Exclusive ==
  \A i, j \in AwsImages :
    i # j /\ Assigned(i) # 0 => Assigned(i) # Assigned(j)

C30_Released ==
  \A i \in AwsImages :
    images[i].pc \in {"returned", "error"} =>
      \A k \in Instances : instanceMap[k] # i

C30_InstanceExclusivity == C30_Exclusive /\ C30_Released
====
